---------------------------- MODULE Spec2Model ----------------------------
(***************************************************************************)
(* LiquidSuite: the bank-statement text parser (lsuite/gmail/parsers.py).  *)
(* Statement text is modelled as real strings; the regular expressions of  *)
(* the parser are character-level operators over them.  Amounts are kept   *)
(* in cents (the regexes only admit two decimals), dates as records.       *)
(***************************************************************************)
EXTENDS Integers, Sequences, FiniteSets, TLC

(***************************************************************************)
(* Characters and strings                                                  *)
(***************************************************************************)
Digits == {"0", "1", "2", "3", "4", "5", "6", "7", "8", "9"}

Lowers == {"a", "b", "c", "d", "e", "f", "g", "h", "i", "j", "k", "l", "m",
           "n", "o", "p", "q", "r", "s", "t", "u", "v", "w", "x", "y", "z"}

Uppers == {"A", "B", "C", "D", "E", "F", "G", "H", "I", "J", "K", "L", "M",
           "N", "O", "P", "Q", "R", "S", "T", "U", "V", "W", "X", "Y", "Z"}

\* \s inside one line and inside a text (lines are joined by "\n")
Spaces == {" ", "\t", "\n"}

\* \d
IsDigit(c) == c \in Digits

\* \s
IsSpace(c) == c \in Spaces

\* \w
IsWord(c) == c \in Digits \cup Lowers \cup Uppers \cup {"_"}

\* [\d\s,]
IsAmtChar(c) == IsDigit(c) \/ IsSpace(c) \/ c = ","

\* s[pos-1] of the code (the model counts characters from 1); "" past the end
Ch(s, pos) == IF pos >= 1 /\ pos <= Len(s) THEN SubSeq(s, pos, pos) ELSE ""

\* s[pos-1:]
From(s, pos) == IF pos > Len(s) THEN "" ELSE SubSeq(s, pos, Len(s))

\* s[a-1:b]
Sub(s, a, b) == IF a > b THEN "" ELSE SubSeq(s, a, b)

\* the first position >= pos of s that holds no whitespace (Len(s)+1 if none)
RECURSIVE SkipSpaces(_, _)
SkipSpaces(s, pos) ==
  IF pos <= Len(s) /\ IsSpace(Ch(s, pos)) THEN SkipSpaces(s, pos + 1) ELSE pos

\* the first position >= pos of s that holds no digit
RECURSIVE SkipDigits(_, _)
SkipDigits(s, pos) ==
  IF pos <= Len(s) /\ IsDigit(Ch(s, pos)) THEN SkipDigits(s, pos + 1) ELSE pos

\* the first position >= pos of s that holds no character of [\d\s,]
RECURSIVE SkipAmtChars(_, _)
SkipAmtChars(s, pos) ==
  IF pos <= Len(s) /\ IsAmtChar(Ch(s, pos)) THEN SkipAmtChars(s, pos + 1) ELSE pos

\* the last position <= pos of s that holds no whitespace (0 if none)
RECURSIVE BackSpaces(_, _)
BackSpaces(s, pos) ==
  IF pos >= 1 /\ IsSpace(Ch(s, pos)) THEN BackSpaces(s, pos - 1) ELSE pos

\* str.strip()
Strip(s) == Sub(s, SkipSpaces(s, 1), BackSpaces(s, Len(s)))

\* str.replace(c, '') for a one-character c (halving keeps the evaluation
\* shallow on long strings)
RECURSIVE RemoveChar(_, _)
RemoveChar(s, c) ==
  IF Len(s) = 0 THEN ""
  ELSE IF Len(s) = 1 THEN (IF s = c THEN "" ELSE s)
  ELSE LET h == Len(s) \div 2
       IN RemoveChar(Sub(s, 1, h), c) \o RemoveChar(From(s, h + 1), c)

\* sub in s
Contains(s, sub) ==
  \E k \in 1..(Len(s) - Len(sub) + 1) : Sub(s, k, k + Len(sub) - 1) = sub

\* str.startswith / str.endswith
StartsWith(s, p) == Len(s) >= Len(p) /\ Sub(s, 1, Len(p)) = p

EndsWith(s, p) == Len(s) >= Len(p) /\ Sub(s, Len(s) - Len(p) + 1, Len(s)) = p

\* the first position >= pos of s that holds whitespace (Len(s)+1 if none)
RECURSIVE SkipWord(_, _)
SkipWord(s, pos) ==
  IF pos <= Len(s) /\ ~IsSpace(Ch(s, pos)) THEN SkipWord(s, pos + 1) ELSE pos

\* s.split(): the words of s from position pos on
RECURSIVE WordsFrom(_, _)
WordsFrom(s, pos) ==
  LET a == SkipSpaces(s, pos)
      b == SkipWord(s, a)
  IN IF a > Len(s) THEN << >> ELSE <<Sub(s, a, b - 1)>> \o WordsFrom(s, b)

Split(s) == WordsFrom(s, 1)

\* sep.join(parts)
RECURSIVE JoinWith(_, _)
JoinWith(parts, sep) ==
  IF Len(parts) = 0 THEN ""
  ELSE IF Len(parts) = 1 THEN parts[1]
  ELSE LET h == Len(parts) \div 2
       IN JoinWith(SubSeq(parts, 1, h), sep) \o sep
          \o JoinWith(SubSeq(parts, h + 1, Len(parts)), sep)

\* ' '.join(s.split())
CleanWhitespace(s) == JoinWith(Split(s), " ")

(***************************************************************************)
(* Numbers and dates                                                       *)
(***************************************************************************)
DigitVal(c) ==
  CASE c = "0" -> 0 [] c = "1" -> 1 [] c = "2" -> 2 [] c = "3" -> 3
    [] c = "4" -> 4 [] c = "5" -> 5 [] c = "6" -> 6 [] c = "7" -> 7
    [] c = "8" -> 8 [] c = "9" -> 9

\* int(s) for a string of digits ("" gives 0)
RECURSIVE IntOf(_)
IntOf(s) ==
  IF s = "" THEN 0
  ELSE IntOf(Sub(s, 1, Len(s) - 1)) * 10 + DigitVal(Ch(s, Len(s)))

AllDigits(s) == SkipDigits(s, 1) > Len(s)

\* the outcome of a conversion that raises ValueError
ValueError == -1

\* float(s), in cents, for the strings the amount regexes let through: digits,
\* a point and two digits; anything else left in s (a tab or a line break
\* that [\d\s,] admitted and replace(' ', '') kept) raises ValueError
ParseFloat(s) ==
  LET n == Len(s)
  IN IF n >= 3 /\ Ch(s, n - 2) = "." /\ AllDigits(Sub(s, 1, n - 3))
        /\ AllDigits(Sub(s, n - 1, n))
     THEN IntOf(Sub(s, 1, n - 3)) * 100 + IntOf(Sub(s, n - 1, n))
     ELSE ValueError

\* str.lower() of one character
LowerOf(c) ==
  CASE c = "A" -> "a" [] c = "B" -> "b" [] c = "C" -> "c" [] c = "D" -> "d"
    [] c = "E" -> "e" [] c = "F" -> "f" [] c = "G" -> "g" [] c = "H" -> "h"
    [] c = "I" -> "i" [] c = "J" -> "j" [] c = "K" -> "k" [] c = "L" -> "l"
    [] c = "M" -> "m" [] c = "N" -> "n" [] c = "O" -> "o" [] c = "P" -> "p"
    [] c = "Q" -> "q" [] c = "R" -> "r" [] c = "S" -> "s" [] c = "T" -> "t"
    [] c = "U" -> "u" [] c = "V" -> "v" [] c = "W" -> "w" [] c = "X" -> "x"
    [] c = "Y" -> "y" [] c = "Z" -> "z" [] OTHER -> c

\* str.lower()
RECURSIVE Lower(_)
Lower(s) ==
  IF Len(s) = 0 THEN ""
  ELSE IF Len(s) = 1 THEN LowerOf(s)
  ELSE LET h == Len(s) \div 2
       IN Lower(Sub(s, 1, h)) \o Lower(From(s, h + 1))

\* %b: the month abbreviations, matched without regard to case
MonthNames == <<"jan", "feb", "mar", "apr", "may", "jun",
                "jul", "aug", "sep", "oct", "nov", "dec">>

\* the month number of a name, 0 if it is no month
MonthOf(name) ==
  LET hits == {m \in 1..12 : MonthNames[m] = Lower(name)}
  IN IF hits = {} THEN 0 ELSE CHOOSE m \in hits : TRUE

IsLeap(y) == (y % 4 = 0 /\ y % 100 # 0) \/ y % 400 = 0

DaysInMonth(y, m) ==
  IF m = 2 THEN (IF IsLeap(y) THEN 29 ELSE 28)
  ELSE IF m \in {4, 6, 9, 11} THEN 30 ELSE 31

\* the outcome of datetime.strptime raising ValueError
NoDate == [year |-> 0, month |-> 0, day |-> 0]

\* datetime.date(y, m, d), ValueError for a day the month does not have
MakeDate(y, m, d) ==
  IF y >= 1 /\ m \in 1..12 /\ d >= 1 /\ d <= DaysInMonth(y, m)
  THEN [year |-> y, month |-> m, day |-> d]
  ELSE NoDate

\* %d: one or two digits, 1..31
DayOf(s) ==
  IF Len(s) \in {1, 2} /\ AllDigits(s) /\ IntOf(s) \in 1..31 THEN IntOf(s) ELSE 0

\* datetime.strptime(s, '%d %b %Y').date() for s = <digits> <word> <4 digits>
StrptimeDMonY(s) ==
  LET a  == SkipDigits(s, 1)
      b  == SkipSpaces(s, a)
      c  == b + 3
      d  == SkipSpaces(s, c)
      dd == DayOf(Sub(s, 1, a - 1))
      mm == MonthOf(Sub(s, b, c - 1))
      yy == Sub(s, d, Len(s))
  IN IF b > a /\ d > c /\ dd > 0 /\ mm > 0 /\ Len(yy) = 4 /\ AllDigits(yy)
     THEN MakeDate(IntOf(yy), mm, dd)
     ELSE NoDate

\* n written with at least w digits
Pad(n, w) ==
  LET t == ToString(n)
  IN IF Len(t) >= w THEN t
     ELSE IF w - Len(t) = 1 THEN "0" \o t
     ELSE IF w - Len(t) = 2 THEN "00" \o t
     ELSE "000" \o t

\* date.strftime('%Y%m%d') (years of four digits)
Strftime(d) == Pad(d.year, 4) \o Pad(d.month, 2) \o Pad(d.day, 2)

(***************************************************************************)
(* The regular expressions of _parse_tymebank                              *)
(***************************************************************************)
NoField == [ok |-> FALSE, text |-> "", next |-> 0]

\* (-|[\d\s,]+\.\d{2}) at position q of s, q the first position the field may
\* use; borrowed says the whitespace before q can serve as [\d\s,]+.  The
\* alternatives exclude each other, and "." ends every run of [\d\s,], so
\* backtracking finds no second way to match.
FieldAt(s, q, dashOk, borrowed) ==
  LET r == SkipAmtChars(s, q)
  IN IF dashOk /\ Ch(s, q) = "-"
     THEN [ok |-> TRUE, text |-> "-", next |-> q + 1]
     ELSE IF (r > q \/ borrowed) /\ Ch(s, r) = "."
             /\ IsDigit(Ch(s, r + 1)) /\ IsDigit(Ch(s, r + 2))
     THEN [ok |-> TRUE, text |-> Sub(s, q, r + 2), next |-> r + 3]
     ELSE NoField

\* \s+(-|[\d\s,]+\.\d{2}) at position p of s
SpacedField(s, p, dashOk) ==
  LET q == SkipSpaces(s, p)
  IN IF q = p THEN NoField ELSE FieldAt(s, q, dashOk, q - p >= 2)

NoAmounts == [ok |-> FALSE, g1 |-> "", fees |-> "", money_out |-> "",
              money_in |-> "", balance |-> ""]

\* <first field> \s+F \s+F \s+([\d\s,]+\.\d{2}) \s*$, f1 the first field
FieldsTail(s, g1, f1) ==
  LET f2 == SpacedField(s, f1.next, TRUE)
      f3 == SpacedField(s, f2.next, TRUE)
      f4 == SpacedField(s, f3.next, FALSE)
  IN IF f1.ok /\ f2.ok /\ f3.ok /\ f4.ok /\ SkipSpaces(s, f4.next) > Len(s)
     THEN [ok |-> TRUE, g1 |-> g1, fees |-> Strip(f1.text),
           money_out |-> Strip(f2.text), money_in |-> Strip(f3.text),
           balance |-> Strip(f4.text)]
     ELSE NoAmounts

\* re.match(r'^(-|[\d\s,]+\.\d{2})\s+(-|...)\s+(-|...)\s+([\d\s,]+\.\d{2})\s*$', s)
AmountMatch(s) == FieldsTail(s, "", FieldAt(s, 1, TRUE, FALSE))

\* re.search(r'(.+?)\s+(-|...)\s+(-|...)\s+(-|...)\s+([\d\s,]+\.\d{2})\s*$', s)
\* on one line: group 1 is the shortest prefix of n >= 1 characters after
\* which the four fields reach the end of s (a match that starts later in s
\* also matches from the start, "." taking any character of a line)
InlineAmountMatch(s) ==
  LET fits(n) == FieldsTail(s, "", SpacedField(s, n + 1, TRUE)).ok
      ends == {n \in 1..(Len(s) - 1) : IsSpace(Ch(s, n + 1)) /\ fits(n)}
      n1 == CHOOSE n \in ends : \A k \in ends : n <= k
  IN IF ends = {} THEN NoAmounts
     ELSE FieldsTail(s, Strip(Sub(s, 1, n1)), SpacedField(s, n1 + 1, TRUE))

NoDateLine == [ok |-> FALSE, date_str |-> "", rest |-> ""]

\* ^\d{1,2}\s+\w{3}\s+\d{4} : the position after the match, 0 if none
DatePrefixEnd(s) ==
  LET a == SkipDigits(s, 1)
      b == SkipSpaces(s, a)
      d == SkipSpaces(s, b + 3)
  IN IF a \in {2, 3} /\ b > a
        /\ IsWord(Ch(s, b)) /\ IsWord(Ch(s, b + 1)) /\ IsWord(Ch(s, b + 2))
        /\ d > b + 3
        /\ IsDigit(Ch(s, d)) /\ IsDigit(Ch(s, d + 1))
        /\ IsDigit(Ch(s, d + 2)) /\ IsDigit(Ch(s, d + 3))
     THEN d + 4 ELSE 0

\* re.match(r'^\d{1,2}\s+\w{3}\s+\d{4}', s)
StartsWithDate(s) == DatePrefixEnd(s) > 0

\* re.match(r'^(\d{1,2}\s+\w{3}\s+\d{4})\s+(.+)', s); rest is group(2).strip()
DateMatch(s) ==
  LET e == DatePrefixEnd(s)
      f == SkipSpaces(s, e)
  IN IF e > 0 /\ f > e /\ f <= Len(s)
     THEN [ok |-> TRUE, date_str |-> Sub(s, 1, e - 1), rest |-> Strip(From(s, f))]
     ELSE NoDateLine

(***************************************************************************)
(* Statement texts                                                         *)
(***************************************************************************)
\* the lines a TymeBank statement text is made of
TymeLines == {
  "04 Sep 2025 EFT for CAPITEC S SEANEGO - - 250.00 250.05",
  "10 Sep 2025 Purchase at Boxer Spr Mabopane",
  "- 512.46 - 417.59",
  "Spr  Mabopane \t1.50 - - 1,930.05",
  "31 Feb 2025 Transfer - 20.00 - 10.00",
  "05 Sep 2025 Big payment - 15000000.00 - 1.00",
  "06 Sep 2025 AB - - 3.00 4.00",
  "02 Sep 2025 Nothing 0.00 - - 7.00",
  "03 Sep 2025 Tabbed - 5.00 1\t000.00 9.00" }

\* the lines that follow the first transaction of a text
TailLines == {
  "04 Sep 2025 EFT for CAPITEC S SEANEGO - - 250.00 250.05",
  "- 512.46 - 417.59",
  "Spr  Mabopane \t1.50 - - 1,930.05",
  "31 Feb 2025 Transfer - 20.00 - 10.00",
  "02 Sep 2025 Nothing 0.00 - - 7.00" }

\* lines between a date line and its amounts
FillLines == {"525309988959", "-- card --"}

\* the number of lines put between the first line of a text and the rest
MaxFill == 5

\* the number of lines after them
MaxTail == 2

\* the sequences over S of at most n elements
RECURSIVE SeqsUpTo(_, _)
SeqsUpTo(S, n) ==
  IF n = 0 THEN {<< >>}
  ELSE LET shorter == SeqsUpTo(S, n - 1)
       IN shorter \cup {Append(t, x) : t \in {u \in shorter : Len(u) = n - 1}, x \in S}

\* k times the line f
Repeat(f, k) == [n \in 1..k |-> f]

\* text.split('\n') of the texts parsed: a first line, a block of filler
\* lines, and a tail
TextsOf(heads, tails) ==
  {<<h>> \o Repeat(f, k) \o t :
     h \in heads, f \in FillLines, k \in 0..MaxFill, t \in SeqsUpTo(tails, MaxTail)}

\* the lines a document handed to parse_pdf is made of
DocLines == {
  "04 Sep 2025 EFT for CAPITEC S SEANEGO - - 250.00 250.05",
  "12/01/2024 Some Shop -150.00",
  "12 Jan Coffee 35.00",
  "13 Jan Airtime",
  "-R 29.00",
  "14 Jan 2024 Cafe 45.50" }

\* the parts of a line '<DD Mon YYYY> <description> <fee> <money out>
\* <money in> <balance>': a field is "-" or an amount, and one of the three
\* fields before the balance is an amount
SingleFields == {"-", "5.00", "1,930.05"}

SingleParts ==
  {c \in [date : {"04 Sep 2025", "30 Nov 2025"},
          description : {"EFT for CAPITEC S SEANEGO", "Airtime 083", "Shop"},
          fees : SingleFields, money_out : SingleFields,
          money_in : SingleFields, balance : {"250.05"}] :
     c.fees # "-" \/ c.money_out # "-" \/ c.money_in # "-"}

\* the line made of the parts c
SingleLine(c) ==
  c.date \o " " \o c.description \o " " \o c.fees \o " " \o c.money_out
    \o " " \o c.money_in \o " " \o c.balance

SingleLines == {SingleLine(c) : c \in SingleParts}

\* every line _parse_tymebank can be given
AllLines == TymeLines \cup FillLines \cup DocLines \cup SingleLines \cup {""}

\* What the regular expressions of _parse_tymebank find on one line of the
\* text, line = lines[k].strip() and dm its date match: the parsed date, the
\* date-prefix test of the lookahead, the amounts line and the inline
\* amounts of the lookahead, and the amounts on the date line itself.
LineFacts(line, dm) ==
  [line |-> line,
   dm |-> dm,
   trans_date |-> IF dm.ok THEN StrptimeDMonY(dm.date_str) ELSE NoDate,
   is_date |-> StartsWithDate(line),
   am |-> AmountMatch(line),
   im |-> InlineAmountMatch(line),
   same |-> IF dm.ok THEN InlineAmountMatch(dm.rest) ELSE NoAmounts]

\* LineFacts, computed once per line
Facts == [l \in AllLines |-> LineFacts(Strip(l), DateMatch(Strip(l)))]

\* the facts of lines[0], lines[1], ...
FactsOf(ls) == [k \in 1..Len(ls) |-> Facts[ls[k]]]

(***************************************************************************)
(* _parse_tymebank                                                         *)
(***************************************************************************)
\* "j < i + 6": the amounts are looked for on at most five following lines
LookaheadLimit == 6

\* amount_str = field.replace(',', '').replace(' ', '').strip(); float(amount_str)
FieldAmount(field) == ParseFloat(Strip(RemoveChar(RemoveChar(field, ","), " ")))

\* "if next_line and not next_line.startswith('-')": the continuation lines
\* that are folded into the description
IsDescriptionPart(next_line) == next_line # "" /\ ~StartsWith(next_line, "-")

\* "while j < len(lines) and j < i + 6" with one more line looked at
InWindow_OneMore(idx, j, n) == j < n /\ j <= idx + LookaheadLimit

\* "while j < len(lines) and j < i + 6", n = len(lines)
InWindow(idx, j, n) == j < n /\ j < idx + LookaheadLimit

\* amounts_found = False when the lookahead ends
NotFound(parts) == [found |-> FALSE, at |-> -1, parts |-> parts, m |-> NoAmounts]

\* The lookahead loop over lines[j], j = i+1 .. (indexes count from 0, as in
\* the code; fs are the facts of the lines): where the amounts were found
\* (at), the description parts, and the fields.
RECURSIVE LookAhead(_, _, _, _)
LookAhead(fs, idx, j, parts) ==
  IF ~InWindow(idx, j, Len(fs)) THEN NotFound(parts)
  ELSE IF fs[j + 1].is_date THEN NotFound(parts)
  ELSE IF fs[j + 1].am.ok
  THEN [found |-> TRUE, at |-> j, parts |-> parts, m |-> fs[j + 1].am]
  ELSE IF fs[j + 1].im.ok
  THEN [found |-> TRUE, at |-> j, parts |-> Append(parts, fs[j + 1].im.g1),
        m |-> fs[j + 1].im]
  ELSE LookAhead(fs, idx, j + 1,
                 IF IsDescriptionPart(fs[j + 1].line)
                 THEN Append(parts, fs[j + 1].line) ELSE parts)

\* "if not amounts_found": the amounts on the date line itself, la being what
\* the lookahead found
SameLine(f, idx, la) ==
  IF la.found THEN la
  ELSE IF f.same.ok
  THEN [found |-> TRUE, at |-> idx, parts |-> <<f.same.g1>>, m |-> f.same]
  ELSE NotFound(la.parts)

\* the lookahead from line i, then the date line
FindAmounts(fs, idx) ==
  SameLine(fs[idx + 1], idx, LookAhead(fs, idx, idx + 1, <<fs[idx + 1].dm.rest>>))

\* BuildDescription without "Clean whitespace"
BuildDescription_Uncleaned(parts) == JoinWith(parts, " ")

\* description = ' '.join(description_parts); ' '.join(description.split())
BuildDescription(parts) == CleanWhitespace(JoinWith(parts, " "))

\* "len(description) < 3 or 'Description' in description or 'Money Out' in ..."
IsHeaderLike(description) ==
  \/ Len(description) < 3
  \/ Contains(description, "Description")
  \/ Contains(description, "Money Out")

\* One of the three blocks "if amount == 0 and field and field != '-'" (the
\* first has no "amount == 0", amount being 0 there): whether its float()
\* is reached and does not raise, so that the block assigns
FieldTaken(amount, field) ==
  amount = 0 /\ field # "" /\ field # "-" /\ FieldAmount(field) # ValueError

\* the amount after such a block
AmountAfter(amount, field) ==
  IF FieldTaken(amount, field) THEN FieldAmount(field) ELSE amount

\* ResolveWith with "trans_type = 'credit'" of the money-in block lost
ResolveWith_NoCredit(description, m, a1, a2) ==
  [amount |-> AmountAfter(a2, m.fees),
   type |-> "debit",
   description |-> IF FieldTaken(a2, m.fees)
                   THEN description \o " (Fee)" ELSE description]

\* "Determine transaction type and amount": money in, then money out, then
\* fees; a1 and a2 are the amount after the first and the second block
ResolveWith(description, m, a1, a2) ==
  [amount |-> AmountAfter(a2, m.fees),
   type |-> IF FieldTaken(a2, m.fees) \/ FieldTaken(a1, m.money_out) THEN "debit"
            ELSE IF FieldTaken(0, m.money_in) THEN "credit" ELSE "debit",
   description |-> IF FieldTaken(a2, m.fees)
                   THEN description \o " (Fee)" ELSE description]

Resolve(description, m) ==
  ResolveWith(description, m, AmountAfter(0, m.money_in),
              AmountAfter(AmountAfter(0, m.money_in), m.money_out))

\* "if amount > 0": whether the resolved transaction is appended
IsEmitted(amount) == amount > 0

\* the record appended to transactions, n = len(transactions)
TymeRecord(trans_date, r, n) ==
  [date |-> trans_date, description |-> r.description, amount |-> r.amount,
   type |-> r.type,
   reference |-> "TYME-" \o Strftime(trans_date) \o "-" \o ToString(n)]

\* what one iteration of the scan leaves: the next index, the list, and for
\* the record of the scan what it did with the line and the amounts it had
\* found for it (fa)
Iteration(next, txs, outcome, fa) ==
  [i |-> next, transactions |-> txs, outcome |-> outcome, fa |-> fa]

\* Emit with the record put in front of the list
Emit_Prepend(f, txs, next, fa, r) ==
  IF IsEmitted(r.amount)
  THEN Iteration(next, <<TymeRecord(f.trans_date, r, Len(txs))>> \o txs,
                 "emitted", fa)
  ELSE Iteration(next, txs, "zero", fa)

\* "if amount > 0: transactions.append(...)", r the resolved transaction
Emit(f, txs, next, fa, r) ==
  IF IsEmitted(r.amount)
  THEN Iteration(next, Append(txs, TymeRecord(f.trans_date, r, Len(txs))),
                 "emitted", fa)
  ELSE Iteration(next, txs, "zero", fa)

\* Process with "continue" alone where a description that looks like a
\* header is skipped
Process_NoAdvance(f, txs, next, fa, description) ==
  IF IsHeaderLike(description) THEN Iteration(next - 1, txs, "header", fa)
  ELSE Emit(f, txs, next, fa, Resolve(description, fa.m))

\* "Process the transaction if amounts were found": next is the index after
\* "i = j" and "i += 1"
Process(f, txs, next, fa, description) ==
  IF IsHeaderLike(description) THEN Iteration(next, txs, "header", fa)
  ELSE Emit(f, txs, next, fa, Resolve(description, fa.m))

\* Candidate with the date parsed after the lookahead, so that "i = j" has
\* happened when strptime raises
Candidate_LateError(f, idx, txs, fa) ==
  IF f.trans_date = NoDate
  THEN Iteration((IF fa.found /\ fa.at > idx THEN fa.at ELSE idx) + 1, txs,
                 "error", NotFound(<< >>))
  ELSE IF ~fa.found THEN Iteration(idx + 1, txs, "no_amounts", fa)
  ELSE Process(f, txs, (IF fa.at > idx THEN fa.at ELSE idx) + 1, fa,
               BuildDescription(fa.parts))

\* the body of "if date_match:" for the line with facts f; strptime raising
\* ValueError leaves the try block before anything else is done
Candidate(f, idx, txs, fa) ==
  IF f.trans_date = NoDate THEN Iteration(idx + 1, txs, "error", NotFound(<< >>))
  ELSE IF ~fa.found THEN Iteration(idx + 1, txs, "no_amounts", fa)
  ELSE Process(f, txs, (IF fa.at > idx THEN fa.at ELSE idx) + 1, fa,
               BuildDescription(fa.parts))

\* one iteration of "while i < len(lines)" at index i
TymeIteration(fs, idx, txs) ==
  IF ~fs[idx + 1].dm.ok THEN Iteration(idx + 1, txs, "no_date", NotFound(<< >>))
  ELSE Candidate(fs[idx + 1], idx, txs, FindAmounts(fs, idx))

(***************************************************************************)
(* _parse_generic: the regular expressions                                 *)
(***************************************************************************)
\* [^\d\-\+\$R]
IsGenericDescChar(c) == c # "" /\ ~IsDigit(c) /\ c \notin {"-", "+", "$", "R"}

\* the first position >= pos of s that holds neither a digit nor a comma
RECURSIVE SkipDigitsCommas(_, _)
SkipDigitsCommas(s, pos) ==
  IF pos <= Len(s) /\ (IsDigit(Ch(s, pos)) \/ Ch(s, pos) = ",")
  THEN SkipDigitsCommas(s, pos + 1) ELSE pos

\* the first position >= pos of s that holds no character of [^\d\-\+\$R]
RECURSIVE SkipGenericDesc(_, _)
SkipGenericDesc(s, pos) ==
  IF pos <= Len(s) /\ IsGenericDescChar(Ch(s, pos))
  THEN SkipGenericDesc(s, pos + 1) ELSE pos

\* the first position >= pos of s that holds "|" (Len(s)+1 if none)
RECURSIVE FindBar(_, _)
FindBar(s, pos) ==
  IF pos <= Len(s) /\ Ch(s, pos) # "|" THEN FindBar(s, pos + 1) ELSE pos

\* d digits of s from position pos on
DigitsAt(s, pos, d) == \A k \in 0..(d - 1) : IsDigit(Ch(s, pos + k))

\* (-?R?[\d,]+\.\d{2}) at position q of s: every part of it matches in one
\* way only
GenericAmountAt(s, q) ==
  LET a == IF Ch(s, q) = "-" THEN q + 1 ELSE q
      b == IF Ch(s, a) = "R" THEN a + 1 ELSE a
      r == SkipDigitsCommas(s, b)
  IN IF r > b /\ Ch(s, r) = "." /\ DigitsAt(s, r + 1, 2)
     THEN [ok |-> TRUE, text |-> Sub(s, q, r + 2), next |-> r + 3]
     ELSE NoField

\* the date of pattern p (1..4) at position pos of s: the position after it,
\* 0 if there is none
GenericDateEnd(s, pos, p) ==
  IF p \in {1, 2}
  THEN \* \d{2}/\d{2}/\d{4}
       IF DigitsAt(s, pos, 2) /\ Ch(s, pos + 2) = "/" /\ DigitsAt(s, pos + 3, 2)
          /\ Ch(s, pos + 5) = "/" /\ DigitsAt(s, pos + 6, 4)
       THEN pos + 10 ELSE 0
  ELSE IF p = 3
  THEN \* \d{4}-\d{2}-\d{2}
       IF DigitsAt(s, pos, 4) /\ Ch(s, pos + 4) = "-" /\ DigitsAt(s, pos + 5, 2)
          /\ Ch(s, pos + 7) = "-" /\ DigitsAt(s, pos + 8, 2)
       THEN pos + 10 ELSE 0
  ELSE \* \d{2}\s+\w{3}\s+\d{4}
       LET b == SkipSpaces(s, pos + 2)
           d == SkipSpaces(s, b + 3)
       IN IF DigitsAt(s, pos, 2) /\ b > pos + 2
             /\ IsWord(Ch(s, b)) /\ IsWord(Ch(s, b + 1)) /\ IsWord(Ch(s, b + 2))
             /\ d > b + 3 /\ DigitsAt(s, d, 4)
          THEN d + 4 ELSE 0

NoMatch == [ok |-> FALSE, start |-> 0, next |-> 0, date_str |-> "",
            description |-> "", amount_str |-> ""]

\* the match found, from its groups and the amount field am
GenericGroups(s, pos, e, description, am) ==
  IF am.ok
  THEN [ok |-> TRUE, start |-> pos, next |-> am.next,
        date_str |-> Sub(s, pos, e - 1), description |-> description,
        amount_str |-> am.text]
  ELSE NoMatch

\* \s*[|\|]\s*([^|\|]+?)\s*[|\|]\s*(AMOUNT) after the date that ends before
\* position e: "[|\|]" is the bar alone.  Group 2 ends before the
\* whitespace in front of the next bar; when only whitespace stands between
\* the bars, the first \s* gives one character of it back to group 2.
BarTail(s, pos, e) ==
  LET t0 == SkipSpaces(s, e)
      a  == SkipSpaces(s, t0 + 1)
      t  == FindBar(s, a)
  IN IF Ch(s, t0) # "|" \/ t > Len(s) THEN NoMatch
     ELSE IF t = a
     THEN IF a > t0 + 1
          THEN GenericGroups(s, pos, e, Ch(s, a - 1),
                             GenericAmountAt(s, SkipSpaces(s, t + 1)))
          ELSE NoMatch
     ELSE GenericGroups(s, pos, e, Sub(s, a, BackSpaces(s, t - 1)),
                        GenericAmountAt(s, SkipSpaces(s, t + 1)))

\* \s+([^\d\-\+\$R]+?)\s+(AMOUNT) after the date that ends before position
\* e.  With the first \s+ taking all the whitespace, group 2 starts at a and
\* is the shortest run of the class that whitespace and an amount follow;
\* when there is none and the amount stands at a behind three or more
\* whitespace characters, the first \s+ gives two of them back: one is
\* group 2, one the second \s+.
SpaceTail(s, pos, e) ==
  LET a    == SkipSpaces(s, e)
      stop == SkipGenericDesc(s, a)
      ends == {b \in a..(stop - 1) :
                 IsSpace(Ch(s, b + 1))
                 /\ GenericAmountAt(s, SkipSpaces(s, b + 1)).ok}
      b1   == CHOOSE b \in ends : \A k \in ends : b <= k
  IN IF a = e THEN NoMatch
     ELSE IF ends # {}
     THEN GenericGroups(s, pos, e, Sub(s, a, b1),
                        GenericAmountAt(s, SkipSpaces(s, b1 + 1)))
     ELSE IF a - e >= 3
     THEN GenericGroups(s, pos, e, Ch(s, a - 2), GenericAmountAt(s, a))
     ELSE NoMatch

\* pattern p matched at position pos of s
GenericMatchAt(s, pos, p) ==
  LET e == GenericDateEnd(s, pos, p)
  IN IF e = 0 THEN NoMatch
     ELSE IF p = 1 THEN BarTail(s, pos, e)
     ELSE SpaceTail(s, pos, e)

\* the matches of pattern p in s that start at a position of starts, from
\* position pos on, none overlapping an earlier one
RECURSIVE MatchesFrom(_, _, _, _)
MatchesFrom(s, pos, p, starts) ==
  LET later == {q \in starts : q >= pos}
      q1    == CHOOSE q \in later : \A k \in later : q <= k
  IN IF later = {} THEN << >>
     ELSE <<GenericMatchAt(s, q1, p)>>
            \o MatchesFrom(s, GenericMatchAt(s, q1, p).next, p, starts)

\* re.findall(pattern, text, re.MULTILINE) for pattern p
FindAll(s, p) ==
  MatchesFrom(s, 1, p, {q \in 1..Len(s) : IsDigit(Ch(s, q))
                                          /\ GenericMatchAt(s, q, p).ok})

(***************************************************************************)
(* _parse_generic                                                          *)
(***************************************************************************)
\* len(patterns)
PatternCount == 4

\* datetime.strptime(s, '%d/%m/%Y').date() for s = dd/dd/dddd
StrptimeDMY(s) ==
  IF IntOf(Sub(s, 1, 2)) \in 1..31 /\ IntOf(Sub(s, 4, 5)) \in 1..12
  THEN MakeDate(IntOf(Sub(s, 7, 10)), IntOf(Sub(s, 4, 5)), IntOf(Sub(s, 1, 2)))
  ELSE NoDate

\* datetime.strptime(s, '%Y-%m-%d').date() for s = dddd-dd-dd
StrptimeYMD(s) ==
  IF IntOf(Sub(s, 9, 10)) \in 1..31 /\ IntOf(Sub(s, 6, 7)) \in 1..12
  THEN MakeDate(IntOf(Sub(s, 1, 4)), IntOf(Sub(s, 6, 7)), IntOf(Sub(s, 9, 10)))
  ELSE NoDate

\* datetime.strptime(s, date_format).date() with the format of pattern p
GenericStrptime(s, p) ==
  IF p \in {1, 2} THEN StrptimeDMY(s)
  ELSE IF p = 3 THEN StrptimeYMD(s)
  ELSE StrptimeDMonY(s)

\* float(s) for a number with a sign: the value in cents, ok FALSE for
\* ValueError
SignedFloat(s) ==
  LET neg == StartsWith(s, "-")
      v   == ParseFloat(IF neg THEN From(s, 2) ELSE s)
  IN IF v = ValueError THEN [ok |-> FALSE, value |-> 0]
     ELSE [ok |-> TRUE, value |-> IF neg THEN 0 - v ELSE v]

\* match[2].replace('R', '').replace('$', '').replace(',', '').strip(), float()
GenericAmount(amount_str) ==
  SignedFloat(Strip(RemoveChar(RemoveChar(RemoveChar(amount_str, "R"), "$"), ",")))

\* abs(amount)
Abs(amount) == IF amount < 0 THEN 0 - amount ELSE amount

\* 'debit' if amount < 0 else 'credit'
TypeOf(amount) == IF amount < 0 THEN "debit" ELSE "credit"

\* the record appended to transactions, n = len(transactions)
GenericRecord(trans_date, description, amount, n) ==
  [date |-> trans_date, description |-> description, amount |-> Abs(amount),
   type |-> TypeOf(amount),
   reference |-> "GEN-" \o Strftime(trans_date) \o "-" \o ToString(n)]

\* "if len(description) < 3: continue"
TooShort(description) == Len(description) < 3

\* the body of "for match in matches" once the date, the description and
\* the amount are converted: what it leaves of the list, and what it did
GenericAccept(txs, trans_date, description, amount) ==
  IF trans_date = NoDate \/ ~amount.ok
  THEN [transactions |-> txs, outcome |-> "error"]
  ELSE IF TooShort(description)
  THEN [transactions |-> txs, outcome |-> "short"]
  ELSE [transactions |-> Append(txs, GenericRecord(trans_date, description,
                                                   amount.value, Len(txs))),
        outcome |-> "emitted"]

\* one iteration of "for match in matches" for the match mt of pattern p
GenericIteration(mt, p, txs) ==
  GenericAccept(txs, GenericStrptime(Strip(mt.date_str), p),
                Strip(mt.description), GenericAmount(mt.amount_str))

(***************************************************************************)
(* _parse_capitec                                                          *)
(***************************************************************************)
NoCapitecDate == [ok |-> FALSE, p |-> 0, date_str |-> "", rest |-> ""]

\* ^(DATE)\s+(.+) on a stripped line, the date ending before position e
\* (0: no date): date_str is group(1).strip(), rest group(2).strip()
CapitecDateAt(s, p, e) ==
  IF e > 0 /\ SkipSpaces(s, e) > e /\ SkipSpaces(s, e) <= Len(s)
  THEN [ok |-> TRUE, p |-> p, date_str |-> Strip(Sub(s, 1, e - 1)),
        rest |-> Strip(From(s, SkipSpaces(s, e)))]
  ELSE NoCapitecDate

\* the end of ^\d{2}\s+\w{3}
DayMonthEnd(s) ==
  LET b == SkipSpaces(s, 3)
  IN IF DigitsAt(s, 1, 2) /\ b > 3
        /\ IsWord(Ch(s, b)) /\ IsWord(Ch(s, b + 1)) /\ IsWord(Ch(s, b + 2))
     THEN b + 3 ELSE 0

\* "for pattern, date_format in date_patterns: re.match(pattern, line)": the
\* three patterns differ at the third character, so one line matches at most
\* one of them
CapitecDate(s) ==
  IF DigitsAt(s, 1, 4) /\ Ch(s, 5) = "/" /\ DigitsAt(s, 6, 2) /\ Ch(s, 8) = "/"
     /\ DigitsAt(s, 9, 2)
  THEN CapitecDateAt(s, 1, 11)
  ELSE IF GenericDateEnd(s, 1, 2) > 0 THEN CapitecDateAt(s, 2, 11)
  ELSE CapitecDateAt(s, 3, DayMonthEnd(s))

\* datetime.strptime(date_str, date_format).date(), year being
\* datetime.now().year for the format without a year
CapitecStrptime(date_str, p, year) ==
  IF p = 1 THEN StrptimeYMD(date_str)
  ELSE IF p = 2 THEN StrptimeDMY(date_str)
  ELSE StrptimeDMonY(date_str \o " " \o ToString(year))

\* (-?R?\s?[\d\s,]+\.\d{2})\s*$ from position q of a stripped s to its end
IsCapitecAmount(s, q) ==
  LET a == IF Ch(s, q) = "-" THEN q + 1 ELSE q
      b == IF Ch(s, a) = "R" THEN a + 1 ELSE a
  IN /\ q >= 1 /\ b < Len(s) - 2
     /\ SkipAmtChars(s, b) = Len(s) - 2
     /\ Ch(s, Len(s) - 2) = "." /\ DigitsAt(s, Len(s) - 1, 2)

NoCapitecAmount == [ok |-> FALSE, description |-> "", amount_str |-> ""]

\* re.search(r'(.+?)\s+(-?R?\s?[\d\s,]+\.\d{2})\s*$', s): group 1 is the
\* shortest prefix that whitespace and an amount reaching the end follow
CapitecAmountMatch(s) ==
  LET ends == {b \in 1..(Len(s) - 1) :
                 IsSpace(Ch(s, b + 1)) /\ IsCapitecAmount(s, SkipSpaces(s, b + 1))}
      b1   == CHOOSE b \in ends : \A k \in ends : b <= k
  IN IF ends = {} THEN NoCapitecAmount
     ELSE [ok |-> TRUE, description |-> Strip(Sub(s, 1, b1)),
           amount_str |-> From(s, SkipSpaces(s, b1 + 1))]

\* .replace('R', '').replace(',', '').replace(' ', '').strip(), float()
CapitecAmount(amount_str) ==
  SignedFloat(Strip(RemoveChar(RemoveChar(RemoveChar(amount_str, "R"), ","), " ")))

\* 'debit' if amount < 0 or '-' in amount_str else 'credit'
CapitecType(amount, amount_str) ==
  IF amount < 0 \/ Contains(amount_str, "-") THEN "debit" ELSE "credit"

\* the record appended to transactions, n = len(transactions)
CapitecRecord(trans_date, description, amount, amount_str, n) ==
  [date |-> trans_date, description |-> description, amount |-> Abs(amount),
   type |-> CapitecType(amount, amount_str),
   reference |-> "CAP-" \o Strftime(trans_date) \o "-" \o ToString(n)]

\* "try: amount = float(amount_str); if len(description) >= 3: append": used
\* lines is the number of lines the transaction took when it is appended
CapitecAppend(txs, idx, trans_date, description, amount_str, amount, used) ==
  IF ~amount.ok THEN Iteration(idx + 1, txs, "error", NotFound(<< >>))
  ELSE IF Len(description) < 3
  THEN Iteration(idx + 1, txs, "short", NotFound(<< >>))
  ELSE Iteration(idx + used,
                 Append(txs, CapitecRecord(trans_date, description, amount.value,
                                           amount_str, Len(txs))),
                 "emitted", NotFound(<< >>))

\* the amount on the date line (am), else "check ahead" on the next line
CapitecAmounts(ls, idx, txs, trans_date, rest, am, next_line) ==
  IF am.ok
  THEN CapitecAppend(txs, idx, trans_date, am.description, am.amount_str,
                     CapitecAmount(am.amount_str), 1)
  ELSE IF idx + 1 < Len(ls) /\ IsCapitecAmount(next_line, 1)
  THEN CapitecAppend(txs, idx, trans_date, rest, next_line,
                     CapitecAmount(next_line), 2)
  ELSE Iteration(idx + 1, txs, "no_amounts", NotFound(<< >>))

\* the body of "if date_match:" for the date match cd
CapitecCandidate(ls, idx, txs, cd, trans_date) ==
  IF trans_date = NoDate THEN Iteration(idx + 1, txs, "error", NotFound(<< >>))
  ELSE CapitecAmounts(ls, idx, txs, trans_date, cd.rest,
                      CapitecAmountMatch(cd.rest),
                      IF idx + 1 < Len(ls) THEN Strip(ls[idx + 2]) ELSE "")

\* one iteration of "while i < len(lines)" at index idx, cd the date match
\* of the line
CapitecLine(ls, idx, txs, year, cd) ==
  IF ~cd.ok THEN Iteration(idx + 1, txs, "no_date", NotFound(<< >>))
  ELSE CapitecCandidate(ls, idx, txs, cd,
                        CapitecStrptime(cd.date_str, cd.p, year))

CapitecIteration(ls, idx, txs, year) ==
  CapitecLine(ls, idx, txs, year, CapitecDate(Strip(ls[idx + 1])))

(***************************************************************************)
(* _parse_capitec, the definition with a table of patterns                 *)
(***************************************************************************)
\* len(patterns)
TablePatternCount == 3

\* the date of pattern p (1..3) at position pos of s: the position after
\* it, 0 if there is none
TableDateEnd(s, pos, p) ==
  IF p = 1
  THEN \* \d{4}/\d{2}/\d{2}
       IF DigitsAt(s, pos, 4) /\ Ch(s, pos + 4) = "/" /\ DigitsAt(s, pos + 5, 2)
          /\ Ch(s, pos + 7) = "/" /\ DigitsAt(s, pos + 8, 2)
       THEN pos + 10 ELSE 0
  ELSE IF p = 2 THEN GenericDateEnd(s, pos, 2)
  ELSE \* \d{2}\s+\w{3}
       LET b == SkipSpaces(s, pos + 2)
       IN IF DigitsAt(s, pos, 2) /\ b > pos + 2
             /\ IsWord(Ch(s, b)) /\ IsWord(Ch(s, b + 1)) /\ IsWord(Ch(s, b + 2))
          THEN b + 3 ELSE 0

\* [^\d\-\+] and, for the second pattern, [^\d\-\+R]
IsTableDescChar(c, p) ==
  ~IsDigit(c) /\ c # "-" /\ c # "+" /\ (p = 2 => c # "R")

\* the first position >= pos of s that is not of the class of group 2
RECURSIVE SkipTableDesc(_, _, _)
SkipTableDesc(s, pos, p) ==
  IF pos <= Len(s) /\ IsTableDescChar(Ch(s, pos), p)
  THEN SkipTableDesc(s, pos + 1, p) ELSE pos

\* (-?[\d,]+\.\d{2}) and, for the second pattern, (-?R?[\d,]+\.\d{2}) at
\* position q of s
TableAmountAt(s, q, p) ==
  LET a == IF Ch(s, q) = "-" THEN q + 1 ELSE q
      b == IF p = 2 /\ Ch(s, a) = "R" THEN a + 1 ELSE a
      r == SkipDigitsCommas(s, b)
  IN IF r > b /\ Ch(s, r) = "." /\ DigitsAt(s, r + 1, 2)
     THEN [ok |-> TRUE, text |-> Sub(s, q, r + 2), next |-> r + 3]
     ELSE NoField

\* \s+(GROUP 2)\s+(AMOUNT) after the date that ends before position e:
\* group 2 starts behind the whitespace and is the shortest run of its class
\* that whitespace and an amount follow; when there is none and the amount
\* stands behind three or more whitespace characters, one of them is group 2
TableTail(s, pos, e, p) ==
  LET a    == SkipSpaces(s, e)
      stop == SkipTableDesc(s, a, p)
      ends == {b \in a..(stop - 1) :
                 IsSpace(Ch(s, b + 1))
                 /\ TableAmountAt(s, SkipSpaces(s, b + 1), p).ok}
      b1   == CHOOSE b \in ends : \A k \in ends : b <= k
  IN IF a = e THEN NoMatch
     ELSE IF ends # {}
     THEN GenericGroups(s, pos, e, Sub(s, a, b1),
                        TableAmountAt(s, SkipSpaces(s, b1 + 1), p))
     ELSE IF a - e >= 3
     THEN GenericGroups(s, pos, e, Ch(s, a - 2), TableAmountAt(s, a, p))
     ELSE NoMatch

\* pattern p matched at position pos of s
TableMatchAt(s, pos, p) ==
  IF TableDateEnd(s, pos, p) = 0 THEN NoMatch
  ELSE TableTail(s, pos, TableDateEnd(s, pos, p), p)

\* the matches of pattern p in s from position pos on, none overlapping an
\* earlier one
RECURSIVE TableMatchesFrom(_, _, _, _)
TableMatchesFrom(s, pos, p, starts) ==
  LET later == {q \in starts : q >= pos}
      q1    == CHOOSE q \in later : \A k \in later : q <= k
  IN IF later = {} THEN << >>
     ELSE <<TableMatchAt(s, q1, p)>>
            \o TableMatchesFrom(s, TableMatchAt(s, q1, p).next, p, starts)

\* re.findall(pattern, text, re.MULTILINE) for pattern p
TableFindAll(s, p) ==
  TableMatchesFrom(s, 1, p, {q \in 1..Len(s) : IsDigit(Ch(s, q))
                                               /\ TableMatchAt(s, q, p).ok})

\* "if date_format == '%d %b': date_str = f'{date_str} {current_year}';
\* date_format = '%d %b %Y'" and strptime: the assignment changes the
\* variable of the loop over the patterns, so from the second match of the
\* third pattern on (done > 0) the test fails and a date without a year
\* meets the format '%d %b %Y', a ValueError
TableStrptime(date_str, p, done, year) ==
  IF p = 3 /\ done > 0 THEN NoDate
  ELSE CapitecStrptime(date_str, p, year)

\* match[2].replace('R', '').replace(',', '').strip(), float()
TableAmount(amount_str) ==
  SignedFloat(Strip(RemoveChar(RemoveChar(amount_str, "R"), ",")))

\* the record appended to transactions, n = len(transactions)
TableRecord(trans_date, description, amount, n) ==
  [date |-> trans_date, description |-> description, amount |-> Abs(amount),
   type |-> TypeOf(amount),
   reference |-> "CAP-" \o Strftime(trans_date) \o "-" \o ToString(n)]

\* one iteration of "for match in matches" for the match mt of pattern p,
\* done matches of the pattern having been processed
TableIteration(mt, p, done, txs, year) ==
  LET trans_date == TableStrptime(Strip(mt.date_str), p, done, year)
      amount     == TableAmount(mt.amount_str)
  IN IF trans_date = NoDate \/ ~amount.ok
     THEN [transactions |-> txs, outcome |-> "error"]
     ELSE [transactions |->
             Append(txs, TableRecord(trans_date, Strip(mt.description),
                                     amount.value, Len(txs))),
           outcome |-> "emitted"]

(***************************************************************************)
(* State                                                                   *)
(***************************************************************************)
VARIABLES
  lines,         \* text.split('\n')
  pc,            \* where the call is
  i,             \* _parse_tymebank: the index of the main loop
  pattern,       \* _parse_generic: the index of the pattern being tried
  matches,       \* _parse_generic: what findall returned for it
  mi,            \* _parse_generic: the index of the match being processed
  transactions,  \* the list being built
  result,        \* what the call returned
  log,           \* per iteration of a scan: what it did with its candidate
  bank_name,     \* parse_pdf: the bank identifier
  pdf,           \* parse_pdf: the document behind pdf_data
  password,      \* parse_pdf: the password given
  library,       \* the PDF library that can be imported
  current_year,  \* datetime.now().year
  previous,      \* the lists the calls before this one returned
  db,            \* the tables of the application
  request,       \* the request being served: its arguments and its locals
  response,      \* what the request returned
  ledger,        \* the calls made to the external ledger
  others         \* the requests of other workers while this one runs

\* the arguments of the call and its environment
call_vars == <<bank_name, pdf, password, library, current_year>>

\* what a call of a parser leaves as it is
app_vars == <<db, request, response, ledger, others>>

outside_vars == <<previous, app_vars>>

\* the variables of the parsers
parser_vars == <<lines, pc, i, pattern, matches, mi, transactions, result, log,
                 call_vars, previous>>

vars == <<lines, pc, i, pattern, matches, mi, transactions, result, log,
          call_vars, outside_vars>>

\* the variables of the line scans and those of _parse_generic
tyme_vars == <<i>>

generic_vars == <<pattern, matches, mi>>

\* the locals of the parsers before they are assigned
NoLocals == i = 0 /\ pattern = 0 /\ matches = << >> /\ mi = 0

\* password=None
None == "<None>"

\* the password the encrypted documents are protected with
UserPassword == "secret"

\* the years datetime.now() is in
Years == {2024, 2025}

\* a document of one page whose text is the lines ls
PdfOf(is_encrypted, ls) == [is_encrypted |-> is_encrypted, page |-> ls]

\* no call has returned: a list that no call returns, written with a record
\* so that it can be compared with the lists of transactions
NoResult == <<[none |-> TRUE]>>

\* None for an id
NoId == 0

\* no request is served
NoRequest == [kind |-> "none"]

NoResponse == [status |-> 0]

EmptyDb == [bank_transactions |-> << >>, email_statements |-> << >>,
            categories |-> << >>, erpnext_configs |-> << >>,
            google_credentials |-> << >>]

\* the parsers are called outside a request
NoApplication ==
  /\ db = EmptyDb /\ request = NoRequest /\ response = NoResponse
  /\ ledger = << >> /\ others = << >>

\* a parser called on its own, outside parse_pdf
DirectCall ==
  /\ bank_name = "other"
  /\ pdf = PdfOf(FALSE, << >>)
  /\ password = None
  /\ library = "PyPDF2"
  /\ current_year = 2025
  /\ previous = << >>
  /\ NoApplication

\* no parser is called: the requests of the application below call none
NoParser ==
  /\ lines = << >> /\ pc = "none"
  /\ bank_name = "other" /\ pdf = PdfOf(FALSE, << >>) /\ password = None
  /\ library = "PyPDF2" /\ current_year = 2025 /\ previous = << >>
  /\ NoLocals /\ transactions = << >> /\ result = NoResult /\ log = << >>

\* _parse_tymebank(text) is called
InitTyme ==
  /\ lines \in TextsOf(TymeLines, TailLines)
  /\ pc = "tymebank"
  /\ DirectCall
  /\ NoLocals
  /\ transactions = << >>
  /\ result = NoResult
  /\ log = << >>

\* the assignments of one iteration it; log keeps what it did
TymeApply(it) ==
  /\ i' = it.i
  /\ transactions' = it.transactions
  /\ log' = Append(log, [line |-> i, outcome |-> it.outcome, fa |-> it.fa,
                         n |-> Len(it.transactions)])

\* one iteration of "while i < len(lines)"
TymeStep ==
  /\ pc = "tymebank"
  /\ i < Len(lines)
  /\ TymeApply(TymeIteration(FactsOf(lines), i, transactions))
  /\ UNCHANGED <<lines, pc, result, generic_vars, call_vars, outside_vars>>

\* "return transactions"
TymeReturn ==
  /\ pc = "tymebank"
  /\ i >= Len(lines)
  /\ result' = transactions
  /\ pc' = "done"
  /\ UNCHANGED <<lines, i, transactions, log, generic_vars, call_vars, outside_vars>>

\* _parse_tymebank(text) is called for a text of one line
InitSingle ==
  /\ lines \in {<<l>> : l \in SingleLines}
  /\ pc = "tymebank"
  /\ DirectCall
  /\ NoLocals
  /\ transactions = << >>
  /\ result = NoResult
  /\ log = << >>

NextTyme == TymeStep \/ TymeReturn

SpecSingle == InitSingle /\ [][NextTyme]_vars

SpecTyme == InitTyme /\ [][NextTyme]_vars

\* the call runs on until it returns: weak fairness of NextTyme, which is
\* enabled exactly while pc = "tymebank" (an iteration when i < len(lines),
\* the return otherwise), written with that test for ENABLED <<NextTyme>>_vars
SpecTymeRuns ==
  SpecTyme /\ ([]<>(pc # "tymebank") \/ []<><<NextTyme>>_vars)

(***************************************************************************)
(* _parse_generic: the loops                                               *)
(***************************************************************************)
\* the lines a statement of another bank is made of
GenericLines == {
  "12/01/2024 | Some Shop | -150.00",
  "12/01/2024 Some Shop -150.00",
  "2024-01-13 Salary R1,500.00",
  "14 Jan 2024 Cafe 45.50",
  "12/01/2024 Zero Shop 0.00",
  "12/01/2024 Nil Shop -0.00",
  "31/02/2024 Bad Day 10.00",
  "15/01/2024 AB 5.00",
  "16/01/2024 Big Shop 15000000.00",
  "11/01/2024    7.00" }

\* the number of lines of such a text
MaxGenericLines == 3

\* text.split('\n') of the texts _parse_generic is given
GenericTexts == SeqsUpTo(GenericLines, MaxGenericLines) \ {<< >>}

\* the text of the lines ls
TextOf(ls) == JoinWith(ls, "\n")

\* _parse_generic(text) is called
InitGeneric ==
  /\ lines \in GenericTexts
  /\ pc = "generic"
  /\ DirectCall
  /\ NoLocals
  /\ transactions = << >>
  /\ result = NoResult
  /\ log = << >>

\* "matches = re.findall(...)" and "if matches:", found being the matches
GenericFind(found) ==
  /\ matches' = found
  /\ mi' = 0
  /\ IF found = << >>
     THEN pattern' = pattern + 1 /\ pc' = "generic"
     ELSE pattern' = pattern /\ pc' = "matches"

\* the next pattern of "for pattern, date_format in patterns"
GenericPattern ==
  /\ pc = "generic"
  /\ pattern < PatternCount
  /\ GenericFind(FindAll(TextOf(lines), pattern + 1))
  /\ UNCHANGED <<lines, tyme_vars, transactions, result, log, call_vars, outside_vars>>

\* the assignments of one iteration it for the match mt
GenericApply(mt, it) ==
  /\ transactions' = it.transactions
  /\ log' = Append(log, [line |-> mt.start, outcome |-> it.outcome,
                         pattern |-> pattern + 1, match |-> mt,
                         n |-> Len(it.transactions)])

\* one iteration of "for match in matches"
GenericMatch ==
  /\ pc = "matches"
  /\ mi < Len(matches)
  /\ GenericApply(matches[mi + 1],
                  GenericIteration(matches[mi + 1], pattern + 1, transactions))
  /\ mi' = mi + 1
  /\ UNCHANGED <<lines, pc, tyme_vars, pattern, matches, result, call_vars, outside_vars>>

\* GenericMatchesEnd without "if transactions: break"
GenericMatchesEnd_NoBreak ==
  /\ pc = "matches"
  /\ mi >= Len(matches)
  /\ pc' = "generic" /\ pattern' = pattern + 1
  /\ UNCHANGED <<lines, tyme_vars, matches, mi, transactions, result, log, call_vars, outside_vars>>

\* the end of "for match in matches": "if transactions: break"
GenericMatchesEnd ==
  /\ pc = "matches"
  /\ mi >= Len(matches)
  /\ IF transactions # << >>
     THEN pc' = "generic_return" /\ pattern' = pattern
     ELSE pc' = "generic" /\ pattern' = pattern + 1
  /\ UNCHANGED <<lines, tyme_vars, matches, mi, transactions, result, log, call_vars, outside_vars>>

\* "return transactions", after the break or after the last pattern
GenericReturn ==
  /\ \/ pc = "generic_return"
     \/ pc = "generic" /\ pattern >= PatternCount
  /\ result' = transactions
  /\ pc' = "done"
  /\ UNCHANGED <<lines, tyme_vars, generic_vars, transactions, log, call_vars, outside_vars>>

NextGeneric ==
  GenericPattern \/ GenericMatch \/ GenericMatchesEnd \/ GenericReturn

SpecGeneric == InitGeneric /\ [][NextGeneric]_vars

(***************************************************************************)
(* _parse_capitec: the scan                                                *)
(***************************************************************************)
\* the assignments of one iteration it
CapitecApply(it) ==
  /\ i' = it.i
  /\ transactions' = it.transactions
  /\ log' = Append(log, [line |-> i, outcome |-> it.outcome, fa |-> it.fa,
                         n |-> Len(it.transactions)])

\* one iteration of "while i < len(lines)"
CapitecStep ==
  /\ pc = "capitec"
  /\ i < Len(lines)
  /\ CapitecApply(CapitecIteration(lines, i, transactions, current_year))
  /\ UNCHANGED <<lines, pc, result, generic_vars, call_vars, outside_vars>>

\* "return transactions"
CapitecReturn ==
  /\ pc = "capitec"
  /\ i >= Len(lines)
  /\ result' = transactions
  /\ pc' = "done"
  /\ UNCHANGED <<lines, i, transactions, log, generic_vars, call_vars, outside_vars>>

NextCapitec == CapitecStep \/ CapitecReturn

(***************************************************************************)
(* _parse_capitec with the table of patterns: the loops                    *)
(***************************************************************************)
\* well-formed lines '<DD Mon> <description> <amount>'
YearlessLines == {
  "12 Jan Coffee 35.00",
  "12 Jan Taxi -12.00",
  "13 Jan Lunch at cafe 1,020.50",
  "28 Feb Salary 15,000.00" }

\* the lines of the texts _parse_capitec is given
TableLines == YearlessLines \cup {"12/01/2024 Some Shop -150.00",
                                  "2024/01/14 Rent R4,500.00", "Balance"}

\* the number of lines of such a text
MaxCapitecLines == 2

\* _parse_capitec(text) is called, def being the definition that is run:
\* the line scan or the table of patterns
InitCapitec ==
  /\ lines \in SeqsUpTo(TableLines, MaxCapitecLines) \ {<< >>}
  /\ pc \in {"capitec", "capitec_table"}
  /\ bank_name = "capitec"
  /\ pdf = PdfOf(FALSE, << >>)
  /\ password = None
  /\ library = "PyPDF2"
  /\ current_year \in Years
  /\ previous = << >>
  /\ NoApplication
  /\ NoLocals
  /\ transactions = << >>
  /\ result = NoResult
  /\ log = << >>

\* the next pattern of "for pattern, date_format in patterns": findall and
\* "if matches:"
TablePattern ==
  /\ pc = "capitec_table"
  /\ pattern < TablePatternCount
  /\ matches' = TableFindAll(TextOf(lines), pattern + 1)
  /\ mi' = 0
  /\ IF matches' = << >>
     THEN pattern' = pattern + 1 /\ pc' = pc
     ELSE pattern' = pattern /\ pc' = "table_matches"
  /\ UNCHANGED <<lines, tyme_vars, transactions, result, log, call_vars, outside_vars>>

\* one iteration of "for match in matches"
TableMatch ==
  /\ pc = "table_matches"
  /\ mi < Len(matches)
  /\ GenericApply(matches[mi + 1],
                  TableIteration(matches[mi + 1], pattern + 1, mi, transactions,
                                 current_year))
  /\ mi' = mi + 1
  /\ UNCHANGED <<lines, pc, tyme_vars, pattern, matches, result, call_vars, outside_vars>>

\* the end of "for match in matches": "if transactions: break"
TableMatchesEnd ==
  /\ pc = "table_matches"
  /\ mi >= Len(matches)
  /\ IF transactions # << >>
     THEN pc' = "table_return" /\ pattern' = pattern
     ELSE pc' = "capitec_table" /\ pattern' = pattern + 1
  /\ UNCHANGED <<lines, tyme_vars, matches, mi, transactions, result, log, call_vars, outside_vars>>

\* "return transactions", after the break or after the last pattern
TableReturn ==
  /\ \/ pc = "table_return"
     \/ pc = "capitec_table" /\ pattern >= TablePatternCount
  /\ result' = transactions
  /\ pc' = "done"
  /\ UNCHANGED <<lines, tyme_vars, generic_vars, transactions, log, call_vars, outside_vars>>

NextTable == TablePattern \/ TableMatch \/ TableMatchesEnd \/ TableReturn

SpecCapitec == InitCapitec /\ [][NextCapitec \/ NextTable]_vars

(***************************************************************************)
(* parse_pdf                                                               *)
(***************************************************************************)
\* the number of lines of a document
MaxDocLines == 2

\* the texts of the documents
DocTexts == SeqsUpTo(DocLines, MaxDocLines) \ {<< >>}

BankNames == {"tymebank", "capitec", "other"}

Passwords == {None, "", UserPassword, "wrong"}

Libraries == {"PyPDF2", "pdfplumber", "none"}

\* parse_pdf(pdf_data, bank_name, password) is called
InitPdf ==
  /\ lines = << >>
  /\ pc = "parse_pdf"
  /\ bank_name \in BankNames
  /\ pdf \in {PdfOf(e, t) : e \in BOOLEAN, t \in DocTexts}
  /\ password \in Passwords
  /\ library \in Libraries
  /\ current_year \in Years
  /\ previous = << >>
  /\ NoApplication
  /\ NoLocals
  /\ transactions = << >>
  /\ result = NoResult
  /\ log = << >>

\* "if not password"
NotPassword(pw) == pw = None \/ pw = ""

\* ExtractError with the result of decrypt() not looked at
ExtractError_Unchecked(doc, pw, lib) ==
  IF lib = "none" THEN "ImportError"
  ELSE IF ~doc.is_encrypted THEN ""
  ELSE IF lib = "PyPDF2"
  THEN IF NotPassword(pw)
       THEN "ValueError: PDF is password protected but no password provided"
       ELSE ""
  ELSE IF pw # UserPassword THEN "pdfplumber: password error" ELSE ""

\* what _extract_text_from_pdf raises, "" when it returns: without a
\* library ImportError; PyPDF2 on an encrypted document ValueError when no
\* password is given or decrypt() returns 0; pdfplumber fails to open an
\* encrypted document without its password
ExtractError(doc, pw, lib) ==
  IF lib = "none" THEN "ImportError"
  ELSE IF ~doc.is_encrypted THEN ""
  ELSE IF lib = "PyPDF2"
  THEN IF NotPassword(pw)
       THEN "ValueError: PDF is password protected but no password provided"
       ELSE IF pw # UserPassword THEN "ValueError: Incorrect PDF password"
       ELSE ""
  ELSE IF pw # UserPassword THEN "pdfplumber: password error" ELSE ""

\* text.split('\n') of the text extracted: "text += page.extract_text() + '\n'"
ExtractedLines(doc) == doc.page \o <<"">>

\* "if bank_name == 'tymebank': ... elif bank_name == 'capitec': ... else"
ParserOf(bank) ==
  IF bank = "tymebank" THEN "tymebank"
  ELSE IF bank = "capitec" THEN "capitec"
  ELSE "generic"

\* parse_pdf up to the call of the parser: the text is extracted, or the
\* error of the extraction leaves parse_pdf
ParsePdf ==
  /\ pc = "parse_pdf"
  /\ IF ExtractError(pdf, password, library) # ""
     THEN /\ pc' = "raised"
          /\ result' = <<"raised", ExtractError(pdf, password, library)>>
          /\ lines' = lines
     ELSE /\ pc' = ParserOf(bank_name)
          /\ result' = result
          /\ lines' = ExtractedLines(pdf)
  /\ UNCHANGED <<tyme_vars, generic_vars, transactions, log, call_vars, outside_vars>>

Init == InitPdf

Next == ParsePdf \/ NextTyme \/ NextCapitec \/ NextGeneric

Spec == Init /\ [][Next]_vars

(***************************************************************************)
(* parse_pdf called twice                                                  *)
(***************************************************************************)
\* parse_pdf has returned and is called once more with the same arguments,
\* at that time or later: the locals are new, datetime.now() has moved on
CallAgain ==
  /\ pc = "done"
  /\ previous = << >>
  /\ previous' = <<result>>
  /\ current_year' \in {y \in Years : y >= current_year}
  /\ pc' = "parse_pdf"
  /\ lines' = << >>
  /\ i' = 0 /\ pattern' = 0 /\ matches' = << >> /\ mi' = 0
  /\ transactions' = << >>
  /\ result' = NoResult
  /\ log' = << >>
  /\ UNCHANGED <<bank_name, pdf, password, library, app_vars>>

NextAgain == Next \/ CallAgain

SpecAgain == Init /\ [][NextAgain]_vars

(***************************************************************************)
(* The scan's log read back: what each iteration appended                  *)
(***************************************************************************)
\* len(transactions) before the k-th iteration of the scan
Before(k) == IF k = 1 THEN 0 ELSE log[k - 1].n

\* the k-th iteration appended one record / appended nothing
Appended(k) == log[k].n = Before(k) + 1

NoneAppended(k) == log[k].n = Before(k)

\* the record the k-th iteration appended
RecordOf(k) == transactions[log[k].n]

\* the iterations that found the amount fields of their date line
FoundAmounts == {k \in 1..Len(log) : log[k].fa.found}

\* a field that is present and nonzero: not empty, not "-", and a number
\* greater than zero once its commas and spaces are removed
Populated(field) == field \notin {"", "-"} /\ FieldAmount(field) > 0

\* the description the k-th iteration built before the fields were resolved
DescriptionOf(k) == BuildDescription(log[k].fa.parts)

\* the resolution priority for the k-th iteration: money in gives a credit,
\* else money out a debit, else fees a debit marked " (Fee)", else nothing
PriorityHolds(k) ==
  IF Populated(log[k].fa.m.money_in)
  THEN /\ Appended(k)
       /\ RecordOf(k).type = "credit"
       /\ RecordOf(k).amount = FieldAmount(log[k].fa.m.money_in)
  ELSE IF Populated(log[k].fa.m.money_out)
  THEN /\ Appended(k)
       /\ RecordOf(k).type = "debit"
       /\ RecordOf(k).amount = FieldAmount(log[k].fa.m.money_out)
  ELSE IF Populated(log[k].fa.m.fees)
  THEN /\ Appended(k)
       /\ RecordOf(k).type = "debit"
       /\ RecordOf(k).amount = FieldAmount(log[k].fa.m.fees)
       /\ EndsWith(RecordOf(k).description, " (Fee)")
  ELSE NoneAppended(k)

(***************************************************************************)
(* gmail/routes.py: upload_csv and bulk_csv_import                         *)
(***************************************************************************)
\* current_user.id
CurrentUser == 1

Users == {1, 2}

\* one transaction of parse_csv: the date, the description, the debit and
\* the credit of a row, the side that is not there being 0.00
CsvRowOf(d, description, debits, credits) ==
  [transaction_date |-> d, description |-> description,
   debits |-> debits, credits |-> credits]

\* the rows of the files, amounts in cents
CsvRowPool == {
  CsvRowOf("2024-01-12", "Coffee", 1000, 0),
  CsvRowOf("2024-01-12", "Coffee", 2000, 0),
  CsvRowOf("2024-01-12", "Coffee", 0, 1000),
  CsvRowOf("2024-01-13", "Coffee", 1000, 0),
  CsvRowOf("2024-01-12", "Rent", 1000, 0) }

\* the number of rows of one request
MaxCsvRows == 2

\* the number of transactions stored before the request
MaxStored == 1

\* BankTransaction(user_id=..., statement_id=..., date=..., description=...,
\* withdrawal=trans_data['debits'], deposit=trans_data['credits'], ...)
BankRowOf(user, statement_id, td, category_id) ==
  [user_id |-> user, statement_id |-> statement_id,
   date |-> td.transaction_date, description |-> td.description,
   withdrawal |-> td.debits, deposit |-> td.credits,
   category_id |-> category_id]

\* EmailStatement(user_id=..., is_processed=...) with its pdf_password
StatementOf(user, pdf_password, is_processed) ==
  [user_id |-> user, pdf_password |-> pdf_password, is_processed |-> is_processed]

\* the transactions stored before the request, of this user and of another
StoredPool == {BankRowOf(u, NoId, td, NoId) : u \in Users, td \in CsvRowPool}

\* the files of a request: one file for upload_csv, two for bulk_csv_import
CsvFiles(kind) ==
  LET all == SeqsUpTo(CsvRowPool, MaxCsvRows)
  IN IF kind = "upload_csv" THEN {<<rows>> : rows \in all}
     ELSE UNION {{<<SubSeq(rows, 1, k), SubSeq(rows, k + 1, Len(rows))>> :
                    k \in 0..Len(rows)} : rows \in all}

\* flash(message, category) and the redirect or the page rendered
Flashed(status, message) == [status |-> status, flash |-> message]

\* db.session of a request: the rows added and not yet committed
NoSession == [bank_transactions |-> << >>, email_statements |-> << >>]

\* the request and the locals of its handler; raised keeps, for each file
\* of bulk_csv_import that raised, the id of the statement it had added
CsvRequest(kind, files, create_statement) ==
  [kind |-> kind, user |-> CurrentUser, files |-> files,
   create_statement |-> create_statement, file |-> 1, row |-> 0,
   statement_id |-> NoId, imported |-> 0, skipped |-> 0,
   total_imported |-> 0, total_skipped |-> 0, files_processed |-> 0,
   session |-> NoSession, raised |-> {}, pc |-> "file"]

InitCsv ==
  /\ NoParser
  /\ \E stored \in SeqsUpTo(StoredPool, MaxStored) :
       db = [EmptyDb EXCEPT !.bank_transactions = stored]
  /\ \E kind \in {"upload_csv", "bulk_csv_import"} :
       \E files \in CsvFiles(kind) : \E create_statement \in BOOLEAN :
         request = CsvRequest(kind, files, create_statement)
  /\ response = NoResponse
  /\ ledger = << >>
  /\ others = << >>

\* filter_by(user_id=..., date=..., description=...).filter(
\*   (withdrawal == trans_data['debits']) | (deposit == trans_data['credits']))
IsExisting(r, user, td) ==
  /\ r.user_id = user
  /\ r.date = td.transaction_date
  /\ r.description = td.description
  /\ (r.withdrawal = td.debits \/ r.deposit = td.credits)

\* "existing = ... .first()" and "if existing"
Existing(rows, user, td) == \E k \in 1..Len(rows) : IsExisting(rows[k], user, td)

\* what a query of the request sees: the rows committed, and the rows the
\* request has added, which are flushed before the query
VisibleRows == db.bank_transactions \o request.session.bank_transactions

\* the statements added by the requests that are waiting
RECURSIVE PendingStatements(_)
PendingStatements(waiting) ==
  IF waiting = << >> THEN 0
  ELSE Len(Head(waiting).request.session.email_statements)
         + PendingStatements(Tail(waiting))

\* "db.session.flush(); statement_id = statement.id": the next id of the
\* table
NextStatementId ==
  Len(db.email_statements) + Len(request.session.email_statements)
    + PendingStatements(others) + 1

\* the file being read and the transaction the loop is at
CsvFile == request.files[request.file]

CsvNext == CsvFile[request.row + 1]

InCsv == request.kind \in {"upload_csv", "bulk_csv_import"}

\* before "for trans_data in transactions": upload_csv returns when the file
\* has no transaction and adds the statement when asked to;
\* bulk_csv_import adds one statement per file
CsvOpen ==
  /\ InCsv /\ request.pc = "file"
  /\ IF request.kind = "upload_csv" /\ CsvFile = << >>
     THEN /\ response' = [status |-> 302, imported |-> 0, skipped |-> 0,
                          flash |-> "No valid transactions found in CSV file"]
          /\ request' = [request EXCEPT !.pc = "done"]
     ELSE /\ response' = response
          /\ IF request.kind = "bulk_csv_import" \/ request.create_statement
             THEN request' = [request EXCEPT !.pc = "rows", !.row = 0,
                                !.imported = 0, !.skipped = 0,
                                !.statement_id = NextStatementId,
                                !.session.email_statements =
                                  Append(@, StatementOf(request.user, None, TRUE))]
             ELSE request' = [request EXCEPT !.pc = "rows", !.row = 0,
                                !.imported = 0, !.skipped = 0]
  /\ UNCHANGED <<db, ledger, others, parser_vars>>

\* one iteration of "for trans_data in transactions"
CsvRow ==
  /\ InCsv /\ request.pc = "rows" /\ request.row < Len(CsvFile)
  /\ IF Existing(VisibleRows, request.user, CsvNext)
     THEN request' = [request EXCEPT !.skipped = @ + 1, !.row = @ + 1]
     ELSE request' = [request EXCEPT !.imported = @ + 1, !.row = @ + 1,
                        !.session.bank_transactions =
                          Append(@, BankRowOf(request.user, request.statement_id,
                                              CsvNext, NoId))]
  /\ UNCHANGED <<db, response, ledger, others, parser_vars>>

\* where the request goes after a file of bulk_csv_import
AfterFile == IF request.file < Len(request.files) THEN "file" ELSE "commit"

\* the end of the loop over the transactions: bulk_csv_import adds the
\* counts of the file to the totals and goes to the next file
CsvClose ==
  /\ InCsv /\ request.pc = "rows" /\ request.row >= Len(CsvFile)
  /\ IF request.kind = "bulk_csv_import"
     THEN request' = [request EXCEPT
                        !.total_imported = @ + request.imported,
                        !.total_skipped = @ + request.skipped,
                        !.files_processed = @ + 1,
                        !.file = IF AfterFile = "file" THEN @ + 1 ELSE @,
                        !.pc = AfterFile]
     ELSE request' = [request EXCEPT !.pc = "commit"]
  /\ UNCHANGED <<db, response, ledger, others, parser_vars>>

\* the tables after the commit of a session
Committed(tables, session) ==
  [tables EXCEPT !.bank_transactions = @ \o session.bank_transactions,
                 !.email_statements = @ \o session.email_statements]

\* "db.session.commit()" and the counts flashed
CsvCommit ==
  /\ InCsv /\ request.pc = "commit"
  /\ db' = Committed(db, request.session)
  /\ request' = [request EXCEPT !.session = NoSession, !.pc = "done"]
  /\ response' =
       IF request.kind = "bulk_csv_import"
       THEN [status |-> 302, files_processed |-> request.files_processed,
             imported |-> request.total_imported,
             skipped |-> request.total_skipped, flash |-> "Processed"]
       ELSE [status |-> 302, imported |-> request.imported,
             skipped |-> request.skipped, flash |-> "Successfully imported"]
  /\ UNCHANGED <<ledger, others, parser_vars>>

\* the statements of the try block that can raise: reading and parsing the
\* file and adding the statement (pc "file"), and an iteration of the loop
\* over the transactions
CanRaise ==
  \/ request.pc = "file"
  \/ request.pc = "rows" /\ request.row < Len(CsvFile)

\* an except block of upload_csv that commits what the request had added
CsvRaise_Commit ==
  /\ InCsv
  /\ IF request.kind = "upload_csv"
     THEN /\ CanRaise \/ request.pc = "commit"
          /\ db' = Committed(db, request.session)
          /\ request' = [request EXCEPT !.session = NoSession, !.pc = "done"]
          /\ response' = Flashed(302, "Error importing CSV")
     ELSE /\ CanRaise
          /\ request' = [request EXCEPT
               !.raised = @ \cup {IF request.pc = "rows" THEN request.statement_id
                                  ELSE NoId},
               !.file = IF AfterFile = "file" THEN @ + 1 ELSE @,
               !.pc = AfterFile]
          /\ db' = db
          /\ response' = response
  /\ UNCHANGED <<ledger, others, parser_vars>>

\* a statement of the try block raises.  upload_csv: "except Exception:
\* db.session.rollback()" and the error flashed, the commit being inside the
\* try block.  bulk_csv_import: "except Exception: logger.error(...);
\* continue", the session left as it is, with the statement of the file
\* when an iteration of the loop raises
CsvRaise ==
  /\ InCsv
  /\ IF request.kind = "upload_csv"
     THEN /\ CanRaise \/ request.pc = "commit"
          /\ request' = [request EXCEPT !.session = NoSession, !.pc = "done"]
          /\ response' = Flashed(302, "Error importing CSV")
     ELSE /\ CanRaise
          /\ request' = [request EXCEPT
               !.raised = @ \cup {IF request.pc = "rows" THEN request.statement_id
                                  ELSE NoId},
               !.file = IF AfterFile = "file" THEN @ + 1 ELSE @,
               !.pc = AfterFile]
          /\ response' = response
  /\ UNCHANGED <<db, ledger, others, parser_vars>>

NextCsv == CsvOpen \/ CsvRow \/ CsvClose \/ CsvCommit \/ CsvRaise

SpecCsv == InitCsv /\ [][NextCsv]_vars

\* the files of two requests that run at the same time
ImportFiles == {<<rows>> : rows \in SeqsUpTo(CsvRowPool, MaxCsvRows) \ {<< >>}}

\* a worker serving a request while another request waits to be served
InitImport ==
  /\ NoParser
  /\ db = EmptyDb
  /\ \E kind \in {"upload_csv", "bulk_csv_import"}, files \in ImportFiles :
       request = CsvRequest(kind, files, FALSE)
  /\ \E kind \in {"upload_csv", "bulk_csv_import"}, files \in ImportFiles :
       others = <<[request |-> CsvRequest(kind, files, FALSE),
                   response |-> NoResponse]>>
  /\ response = NoResponse
  /\ ledger = << >>

\* the workers run at the same time: any step of one request can be
\* followed by a step of another, each with its own session
CsvSwitch ==
  /\ \E k \in 1..Len(others) :
       /\ request' = others[k].request
       /\ response' = others[k].response
       /\ others' = [others EXCEPT ![k] = [request |-> request, response |-> response]]
  /\ UNCHANGED <<db, ledger, parser_vars>>

SpecImport == InitImport /\ [][NextCsv \/ CsvSwitch]_vars

(***************************************************************************)
(* bridge/services.py: CategorizationService, as the tests use it          *)
(***************************************************************************)
\* the first position >= pos of s that holds c (Len(s)+1 if none)
RECURSIVE FindChar(_, _, _)
FindChar(s, c, pos) ==
  IF pos <= Len(s) /\ Ch(s, pos) # c THEN FindChar(s, c, pos + 1) ELSE pos

\* s.split(c)
RECURSIVE SplitOn(_, _)
SplitOn(s, c) ==
  IF FindChar(s, c, 1) > Len(s) THEN <<s>>
  ELSE <<Sub(s, 1, FindChar(s, c, 1) - 1)>> \o SplitOn(From(s, FindChar(s, c, 1) + 1), c)

\* TransactionCategory(name=..., keywords='uber, bolt, taxi, fuel', active=True)
CategoryOf(id, name, keywords) ==
  [id |-> id, name |-> name, keywords |-> keywords, active |-> TRUE]

\* the categories of the tests
Categories == {
  CategoryOf(1, "Transport", "uber, bolt, taxi, fuel"),
  CategoryOf(2, "Food", "restaurant, coffee, lunch") }

\* the orders the categories can be stored and iterated in
CategoryLists ==
  {cs \in [1..Cardinality(Categories) -> Categories] :
     \A a \in DOMAIN cs : \A b \in DOMAIN cs : a # b => cs[a] # cs[b]}

\* get_keywords_list(): the keywords between the commas, stripped, in lower
\* case, the empty ones left out
KeywordsList(keywords) ==
  LET parts == SplitOn(keywords, ",")
  IN SelectSeq([k \in 1..Len(parts) |-> Lower(Strip(parts[k]))],
               LAMBDA w : w # "")

\* matches_description with the description compared as it is written
MatchesDescription_CaseSensitive(category, description) ==
  /\ description # ""
  /\ \E k \in 1..Len(KeywordsList(category.keywords)) :
       Contains(description, KeywordsList(category.keywords)[k])

\* matches_description(description): a keyword occurs in the description,
\* letter case put aside
MatchesDescription(category, description) ==
  /\ description # ""
  /\ \E k \in 1..Len(KeywordsList(category.keywords)) :
       Contains(Lower(description), KeywordsList(category.keywords)[k])

\* the indices of cs whose category matches the description
Matching(cs, description) ==
  {k \in 1..Len(cs) : MatchesDescription(cs[k], description)}

\* _find_matching_category with the last matching category returned
FindMatchingCategory_Last(cs, description) ==
  IF Matching(cs, description) = {} THEN NoId
  ELSE cs[CHOOSE k \in Matching(cs, description) :
            \A q \in Matching(cs, description) : k >= q].id

\* _find_matching_category(transaction, categories), suggest_category: the
\* id of the first category of the iteration that matches, None if none does
FindMatchingCategory(cs, description) ==
  IF Matching(cs, description) = {} THEN NoId
  ELSE cs[CHOOSE k \in Matching(cs, description) :
            \A q \in Matching(cs, description) : k <= q].id

\* the descriptions of the transactions of the tests
Descriptions == {"Uber trip to office", "Unknown transaction",
                 "UBER TRIP TO AIRPORT", "Uber Eats lunch delivery", ""}

\* the number of transactions stored
MaxTransactions == 2

\* the transactions stored when auto_categorize_all is called, without a
\* category or filed under Food
CategorizedPool ==
  {BankRowOf(CurrentUser, NoId, CsvRowOf("2024-01-12", d, 15000, 0), c) :
     d \in Descriptions, c \in {NoId, 2}}

\* service.auto_categorize_all() is called; at_call keeps the transactions
\* as they were stored then
InitCategorize ==
  /\ NoParser
  /\ \E stored \in SeqsUpTo(CategorizedPool, MaxTransactions) :
       \E cs \in CategoryLists :
         /\ db = [EmptyDb EXCEPT !.bank_transactions = stored, !.categories = cs]
         /\ request = [kind |-> "auto_categorize_all", at_call |-> stored,
                       uncategorized |-> << >>, k |-> 0, categorized |-> 0,
                       pc |-> "query"]
  /\ response = NoResponse
  /\ ledger = << >>
  /\ others = << >>

\* every row taken, whether it has a category or not
Uncategorized_All(rows) ==
  [k \in 1..Len(rows) |-> k]

\* the indices of rows that have no category
Uncategorized(rows) ==
  SelectSeq([k \in 1..Len(rows) |-> k], LAMBDA k : rows[k].category_id = NoId)

\* "uncategorized = BankTransaction.query.filter_by(category_id=None).all()"
CategorizeQuery ==
  /\ request.kind = "auto_categorize_all" /\ request.pc = "query"
  /\ request' = [request EXCEPT !.pc = "loop", !.k = 0,
                   !.uncategorized = Uncategorized(db.bank_transactions)]
  /\ UNCHANGED <<db, response, ledger, others, parser_vars>>

\* the category found for the transaction the loop is at
CategoryFound ==
  FindMatchingCategory(db.categories,
    db.bank_transactions[request.uncategorized[request.k + 1]].description)

\* one iteration of "for transaction in uncategorized": the category found
\* is assigned and counted
CategorizeOne ==
  /\ request.kind = "auto_categorize_all" /\ request.pc = "loop"
  /\ request.k < Len(request.uncategorized)
  /\ IF CategoryFound # NoId
     THEN /\ db' = [db EXCEPT
                      !.bank_transactions[request.uncategorized[request.k + 1]]
                         .category_id = CategoryFound]
          /\ request' = [request EXCEPT !.k = @ + 1, !.categorized = @ + 1]
     ELSE /\ db' = db
          /\ request' = [request EXCEPT !.k = @ + 1]
  /\ UNCHANGED <<response, ledger, others, parser_vars>>

\* db.session.commit() and "return categorized, len(uncategorized)"
CategorizeReturn ==
  /\ request.kind = "auto_categorize_all" /\ request.pc = "loop"
  /\ request.k >= Len(request.uncategorized)
  /\ request' = [request EXCEPT !.pc = "done"]
  /\ response' = [status |-> 200, categorized |-> request.categorized,
                  total |-> Len(request.uncategorized)]
  /\ UNCHANGED <<db, ledger, others, parser_vars>>

NextCategorize == CategorizeQuery \/ CategorizeOne \/ CategorizeReturn

SpecCategorize == InitCategorize /\ [][NextCategorize]_vars

(***************************************************************************)
(* erpnext/routes.py: sync_transaction                                     *)
(***************************************************************************)
\* ERPNextConfig(user_id=..., is_active=...)
ConfigOf(user, is_active) == [user_id |-> user, is_active |-> is_active]

ConfigPool == {ConfigOf(u, a) : u \in Users, a \in BOOLEAN}

\* the number of ERPNext configurations stored
MaxConfigs == 2

\* the number of sync requests made
MaxRequests == 2

\* the transactions stored, ids 1 to 4: of the requesting user and of
\* another one, with a category and without
SyncStored ==
  << BankRowOf(1, NoId, CsvRowOf("2024-01-12", "Coffee", 2000, 0), 1),
     BankRowOf(1, NoId, CsvRowOf("2024-01-12", "Coffee", 2000, 0), NoId),
     BankRowOf(2, NoId, CsvRowOf("2024-01-12", "Coffee", 2000, 0), 1),
     BankRowOf(2, NoId, CsvRowOf("2024-01-12", "Coffee", 2000, 0), NoId) >>

\* the ids a request can name, one of them of no transaction
SyncIds == 1..(Len(SyncStored) + 1)

\* what create_journal_entry can end with: the name of the journal entry
\* created, or an exception with its text
JournalOutcomes ==
  { [raised |-> FALSE, value |-> "ACC-JV-2024-00001"],
    [raised |-> TRUE, value |-> "Failed to create journal entry"],
    [raised |-> TRUE, value |-> "Connection refused"] }

\* the application with its transactions and configurations, no request made
InitSync ==
  /\ NoParser
  /\ \E configs \in SeqsUpTo(ConfigPool, MaxConfigs) :
       db = [EmptyDb EXCEPT !.bank_transactions = SyncStored,
                            !.erpnext_configs = configs]
  /\ request = NoRequest
  /\ response = NoResponse
  /\ ledger = << >>
  /\ others = << >>

\* the number of sync requests made so far
RequestNo == IF request.kind = "sync_transaction" THEN request.n ELSE 0

\* POST /transactions/<id>/sync by the logged-in user, when no request is
\* being answered
SyncRequest ==
  /\ request.kind = "none" \/ (request.kind = "sync_transaction" /\ request.pc = "done")
  /\ RequestNo < MaxRequests
  /\ \E id \in SyncIds :
       request' = [kind |-> "sync_transaction", n |-> RequestNo + 1,
                   user |-> CurrentUser, id |-> id, config |-> 0,
                   outcome |-> [raised |-> FALSE, value |-> ""], pc |-> "start"]
  /\ response' = NoResponse
  /\ UNCHANGED <<db, ledger, others, parser_vars>>

\* jsonify({'success': ..., 'message': ...}), status
JsonResponse(status, success, message) ==
  [status |-> status, success |-> success, message |-> message]

\* "ERPNextConfig.query.filter_by(user_id=..., is_active=True).first()":
\* the index of the configuration, 0 for None
ActiveConfig(configs, user) ==
  IF \E k \in 1..Len(configs) : configs[k].user_id = user /\ configs[k].is_active
  THEN CHOOSE k \in 1..Len(configs) :
         /\ configs[k].user_id = user /\ configs[k].is_active
         /\ \A q \in 1..(k - 1) : ~(configs[q].user_id = user /\ configs[q].is_active)
  ELSE 0

\* the checks with the category looked at before the owner
Refusal_CategoryFirst(rows, configs, id, user) ==
  IF id \notin 1..Len(rows) THEN JsonResponse(404, FALSE, "Not Found")
  ELSE IF rows[id].category_id = NoId
    THEN JsonResponse(400, FALSE, "Transaction must be categorized first")
  ELSE IF rows[id].user_id # user THEN JsonResponse(403, FALSE, "Unauthorized")
  ELSE IF ActiveConfig(configs, user) = 0
    THEN JsonResponse(400, FALSE, "No active ERPNext configuration")
  ELSE NoResponse

\* the checks of sync_transaction before the try block: the response that
\* refuses the request, NoResponse if none does
Refusal(rows, configs, id, user) ==
  IF id \notin 1..Len(rows) THEN JsonResponse(404, FALSE, "Not Found")
  ELSE IF rows[id].user_id # user THEN JsonResponse(403, FALSE, "Unauthorized")
  ELSE IF rows[id].category_id = NoId
    THEN JsonResponse(400, FALSE, "Transaction must be categorized first")
  ELSE IF ActiveConfig(configs, user) = 0
    THEN JsonResponse(400, FALSE, "No active ERPNext configuration")
  ELSE NoResponse

InSync(at) == request.kind = "sync_transaction" /\ request.pc = at

\* sync_transaction up to the try block: a refusal is returned, or the
\* service is made for the active configuration
SyncCheck ==
  /\ InSync("start")
  /\ LET refusal == Refusal(db.bank_transactions, db.erpnext_configs,
                            request.id, request.user)
     IN IF refusal # NoResponse
        THEN /\ response' = refusal
             /\ request' = [request EXCEPT !.pc = "done"]
        ELSE /\ response' = response
             /\ request' = [request EXCEPT !.pc = "call",
                              !.config = ActiveConfig(db.erpnext_configs, request.user)]
  /\ UNCHANGED <<db, ledger, others, parser_vars>>

\* "journal_entry_name = service.create_journal_entry(transaction)" in the
\* try block: the call of the ledger, which returns a name or raises
CreateJournalEntry ==
  /\ InSync("call")
  /\ ledger' = Append(ledger, [request |-> request.n, transaction |-> request.id,
                               config |-> request.config])
  /\ \E outcome \in JournalOutcomes :
       request' = [request EXCEPT !.outcome = outcome,
                    !.pc = IF outcome.raised THEN "except" ELSE "return"]
  /\ UNCHANGED <<db, response, others, parser_vars>>

\* "return jsonify({'success': True, ..., 'journal_entry': journal_entry_name})"
SyncReturn ==
  /\ InSync("return")
  /\ response' = [status |-> 200, success |-> TRUE,
                  message |-> "Synced successfully: " \o request.outcome.value,
                  journal_entry |-> request.outcome.value]
  /\ request' = [request EXCEPT !.pc = "done"]
  /\ UNCHANGED <<db, ledger, others, parser_vars>>

\* an except block that calls the service once more
SyncExcept_Retry ==
  /\ InSync("except")
  /\ request' = [request EXCEPT !.pc = "call"]
  /\ UNCHANGED <<db, response, ledger, others, parser_vars>>

\* "except Exception as e: return jsonify({'success': False,
\* 'message': str(e)}), 500"
SyncExcept ==
  /\ InSync("except")
  /\ response' = JsonResponse(500, FALSE, request.outcome.value)
  /\ request' = [request EXCEPT !.pc = "done"]
  /\ UNCHANGED <<db, ledger, others, parser_vars>>

NextSync == SyncRequest \/ SyncCheck \/ CreateJournalEntry \/ SyncReturn \/ SyncExcept

SpecSync == InitSync /\ [][NextSync]_vars

(***************************************************************************)
(* erpnext/routes.py: new_config, edit_config, delete_config,              *)
(* activate_config                                                         *)
(***************************************************************************)
\* the application with no ERPNext configuration stored
InitConfig ==
  /\ NoParser
  /\ db = EmptyDb
  /\ request = NoRequest
  /\ response = NoResponse
  /\ ledger = << >>
  /\ others = << >>

\* a request of user for the configuration id; is_active is the field of the
\* form, connected what service.test_connection() answers
ConfigRequest(kind, user, id, is_active, connected) ==
  [kind |-> kind, user |-> user, id |-> id, is_active |-> is_active,
   connected |-> connected, pc |-> "done"]

\* no request is being served
Idle == IF request.kind = "none" THEN TRUE ELSE request.pc = "done"

\* get_or_404(id) alone, the owner not looked at
ConfigRefusal_NoOwner(configs, id, user) ==
  IF id \notin 1..Len(configs) THEN Flashed(404, "Not Found")
  ELSE NoResponse

\* get_or_404(id) and "if config.user_id != current_user.id": the answer
\* that ends the request, NoResponse when the handler goes on
ConfigRefusal(configs, id, user) ==
  IF id \notin 1..Len(configs) THEN Flashed(404, "Not Found")
  ELSE IF configs[id].user_id # user THEN Flashed(302, "Unauthorized")
  ELSE NoResponse

\* row id taken out of rows
Deleted(rows, id) ==
  [k \in 1..(Len(rows) - 1) |-> IF k < id THEN rows[k] ELSE rows[k + 1]]

\* POST /configs/new: the configuration is stored as the form gives it when
\* the connection test succeeds
NewConfig ==
  /\ Idle
  /\ Len(db.erpnext_configs) < MaxConfigs
  /\ \E user \in Users, is_active \in BOOLEAN, connected \in BOOLEAN :
       /\ request' = ConfigRequest("new_config", user, NoId, is_active, connected)
       /\ IF ~connected
          THEN /\ response' = Flashed(200, "Connection test failed")
               /\ db' = db
          ELSE /\ response' = Flashed(302, "Configuration created successfully!")
               /\ db' = [db EXCEPT !.erpnext_configs =
                            Append(@, ConfigOf(user, is_active))]
  /\ UNCHANGED <<ledger, others, parser_vars>>

\* POST /configs/<id>/edit: the fields of the form are stored, whatever the
\* connection test answers
EditConfig ==
  /\ Idle
  /\ \E user \in Users, id \in 1..(Len(db.erpnext_configs) + 1),
        is_active \in BOOLEAN, connected \in BOOLEAN :
       /\ request' = ConfigRequest("edit_config", user, id, is_active, connected)
       /\ IF ConfigRefusal(db.erpnext_configs, id, user) # NoResponse
          THEN /\ response' = ConfigRefusal(db.erpnext_configs, id, user)
               /\ db' = db
          ELSE /\ response' = Flashed(302, "Configuration updated successfully!")
               /\ db' = [db EXCEPT !.erpnext_configs[id].is_active = is_active]
  /\ UNCHANGED <<ledger, others, parser_vars>>

\* POST /configs/<id>/delete
DeleteConfig ==
  /\ Idle
  /\ \E user \in Users, id \in 1..(Len(db.erpnext_configs) + 1) :
       /\ request' = ConfigRequest("delete_config", user, id, FALSE, FALSE)
       /\ IF ConfigRefusal(db.erpnext_configs, id, user) # NoResponse
          THEN /\ response' = ConfigRefusal(db.erpnext_configs, id, user)
               /\ db' = db
          ELSE /\ response' = Flashed(302, "Configuration deleted successfully!")
               /\ db' = [db EXCEPT !.erpnext_configs = Deleted(@, id)]
  /\ UNCHANGED <<ledger, others, parser_vars>>

\* POST /configs/<id>/activate: every configuration of the user is made
\* inactive, then this one active
ActivateConfig ==
  /\ Idle
  /\ \E user \in Users, id \in 1..(Len(db.erpnext_configs) + 1) :
       /\ request' = ConfigRequest("activate_config", user, id, TRUE, FALSE)
       /\ IF ConfigRefusal(db.erpnext_configs, id, user) # NoResponse
          THEN /\ response' = ConfigRefusal(db.erpnext_configs, id, user)
               /\ db' = db
          ELSE /\ response' = Flashed(302, "is now the active configuration")
               /\ db' = [db EXCEPT !.erpnext_configs =
                            [k \in 1..Len(@) |->
                               IF k = id THEN ConfigOf(user, TRUE)
                               ELSE IF @[k].user_id = user THEN ConfigOf(user, FALSE)
                               ELSE @[k]]]
  /\ UNCHANGED <<ledger, others, parser_vars>>

\* POST /configs/<id>/test: the answer of service.test_connection()
TestConfig ==
  /\ Idle
  /\ \E user \in Users, id \in 1..(Len(db.erpnext_configs) + 1), connected \in BOOLEAN :
       /\ request' = ConfigRequest("test_config", user, id, FALSE, connected)
       /\ response' =
            IF id \notin 1..Len(db.erpnext_configs) THEN Flashed(404, "Not Found")
            ELSE IF db.erpnext_configs[id].user_id # user
            THEN JsonResponse(403, FALSE, "Unauthorized")
            ELSE JsonResponse(200, connected, "test_connection")
  /\ UNCHANGED <<db, ledger, others, parser_vars>>

NextConfig == NewConfig \/ EditConfig \/ DeleteConfig \/ ActivateConfig

SpecConfig == InitConfig /\ [][NextConfig]_vars

(***************************************************************************)
(* models.py: Transaction and BankTransaction, amount and transaction_type *)
(***************************************************************************)
\* a Numeric column that holds NULL
Null == -1

\* the values of the debit and credit columns, in cents
ColumnValues == {Null, 0, 1, 500, 1000, 1001}

\* "x or 0"
OrZero(x) == IF x = Null THEN 0 ELSE x

\* "x and x > 0"
Positive(x) == x # Null /\ x # 0 /\ x > 0

\* Transaction.amount and BankTransaction.amount: credit - debit
AmountOf(debit, credit) == OrZero(credit) - OrZero(debit)

\* Transaction.transaction_type
TransactionTypeOf(debit, credit) ==
  IF Positive(credit) THEN "credit"
  ELSE IF Positive(debit) THEN "debit"
  ELSE "unknown"

\* BankTransaction.transaction_type
BankTransactionTypeOf(withdrawal, deposit) ==
  IF Positive(deposit) THEN "deposit"
  ELSE IF Positive(withdrawal) THEN "withdrawal"
  ELSE "unknown"

\* a row of one of the two models with its two amount columns, the
\* properties not read yet
InitModels ==
  /\ NoParser
  /\ db = EmptyDb
  /\ \E model \in {"Transaction", "BankTransaction"} :
       \E debit \in ColumnValues, credit \in ColumnValues :
         request = [kind |-> model, debit |-> debit, credit |-> credit]
  /\ response = NoResponse
  /\ ledger = << >>
  /\ others = << >>

\* transaction.amount and transaction.transaction_type are read
TransactionProperties ==
  /\ request.kind = "Transaction" /\ response = NoResponse
  /\ response' = [status |-> 200,
                  amount |-> AmountOf(request.debit, request.credit),
                  transaction_type |-> TransactionTypeOf(request.debit, request.credit)]
  /\ UNCHANGED <<db, request, ledger, others, parser_vars>>

\* the same for a BankTransaction, debit its withdrawal and credit its
\* deposit
BankTransactionProperties ==
  /\ request.kind = "BankTransaction" /\ response = NoResponse
  /\ response' = [status |-> 200,
                  amount |-> AmountOf(request.debit, request.credit),
                  transaction_type |-> BankTransactionTypeOf(request.debit, request.credit)]
  /\ UNCHANGED <<db, request, ledger, others, parser_vars>>

NextModels == TransactionProperties \/ BankTransactionProperties

SpecModels == InitModels /\ [][NextModels]_vars

(***************************************************************************)
(* gmail/routes.py: the requests that name a credential, a statement or a  *)
(* transaction by its id                                                   *)
(***************************************************************************)
\* GoogleCredential(user_id=...) and whether it has been authorized
CredentialOf(user, is_authenticated) ==
  [user_id |-> user, is_authenticated |-> is_authenticated]

\* a request of user that names the row id
ByIdRequest(kind, user, id) == [kind |-> kind, user |-> user, id |-> id, pc |-> "done"]

\* GET /credentials/<id>/authorize: the redirect to the consent page
Authorize ==
  /\ Idle
  /\ \E user \in Users, id \in 1..(Len(db.google_credentials) + 1) :
       /\ request' = ByIdRequest("authorize", user, id)
       /\ response' =
            IF ConfigRefusal(db.google_credentials, id, user) # NoResponse
            THEN ConfigRefusal(db.google_credentials, id, user)
            ELSE Flashed(302, "auth_url")
  /\ UNCHANGED <<db, ledger, others, parser_vars>>

\* GET /oauth/callback?code=...&state=<id>: state 0 stands for a request
\* without code or state, exchanged for what exchange_code_for_tokens returns
OauthCallback ==
  /\ Idle
  /\ \E user \in Users, state \in 0..(Len(db.google_credentials) + 1),
        exchanged \in BOOLEAN :
       /\ request' = ByIdRequest("oauth_callback", user, state)
       /\ IF state = 0
          THEN response' = Flashed(302, "OAuth authorization failed") /\ db' = db
          ELSE IF state \notin 1..Len(db.google_credentials)
                  \/ db.google_credentials[state].user_id # user
          THEN response' = Flashed(302, "Invalid credential") /\ db' = db
          ELSE IF exchanged
          THEN /\ response' = Flashed(302, "Gmail access authorized!")
               /\ db' = [db EXCEPT !.google_credentials[state].is_authenticated = TRUE]
          ELSE response' = Flashed(302, "Authorization failed") /\ db' = db
  /\ UNCHANGED <<ledger, others, parser_vars>>

\* POST /credentials/<id>/delete
DeleteCredential ==
  /\ Idle
  /\ \E user \in Users, id \in 1..(Len(db.google_credentials) + 1) :
       /\ request' = ByIdRequest("delete_credential", user, id)
       /\ IF ConfigRefusal(db.google_credentials, id, user) # NoResponse
          THEN /\ response' = ConfigRefusal(db.google_credentials, id, user)
               /\ db' = db
          ELSE /\ response' = Flashed(302, "Credential deleted")
               /\ db' = [db EXCEPT !.google_credentials = Deleted(@, id)]
  /\ UNCHANGED <<ledger, others, parser_vars>>

\* GET /statements/<id>: the page of the statement
StatementDetail ==
  /\ Idle
  /\ \E user \in Users, id \in 1..(Len(db.email_statements) + 1) :
       /\ request' = ByIdRequest("statement_detail", user, id)
       /\ response' =
            IF ConfigRefusal(db.email_statements, id, user) # NoResponse
            THEN ConfigRefusal(db.email_statements, id, user)
            ELSE Flashed(200, "")
  /\ UNCHANGED <<db, ledger, others, parser_vars>>

\* GET /transactions/<id>: the page of the transaction
TransactionDetail ==
  /\ Idle
  /\ \E user \in Users, id \in 1..(Len(db.bank_transactions) + 1) :
       /\ request' = ByIdRequest("transaction_detail", user, id)
       /\ response' =
            IF ConfigRefusal(db.bank_transactions, id, user) # NoResponse
            THEN ConfigRefusal(db.bank_transactions, id, user)
            ELSE Flashed(200, "")
  /\ UNCHANGED <<db, ledger, others, parser_vars>>

(***************************************************************************)
(* gmail/routes.py: parse_statement                                        *)
(***************************************************************************)
\* request.form.get('pdf_password', '') as it is typed
FormPasswords == {"", " ", "secret", "wrong"}

\* the user has a credential that is authorized
HasCredential(credentials, user) ==
  \E k \in 1..Len(credentials) :
    credentials[k].user_id = user /\ credentials[k].is_authenticated

\* what download_and_parse_pdf can end with: the number of transactions
\* extracted, a ValueError or another exception
ParseOutcomes ==
  { [raised |-> "", value |-> "3"],
    [raised |-> "ValueError", value |-> "PDF is password protected"],
    [raised |-> "ValueError", value |-> "Incorrect PDF password"],
    [raised |-> "Exception", value |-> "Attachment not found"] }

\* "password_to_use = pdf_password if pdf_password else statement.pdf_password"
PasswordToUse(pdf_password, saved) == IF pdf_password # "" THEN pdf_password ELSE saved

\* POST /statements/<id>/parse up to the call of the service: the checks,
\* "if save_password and pdf_password: statement.pdf_password = pdf_password;
\* commit", then old_password is kept and the statement of the session gets
\* the password to use.  before is the stored password when the request
\* arrives; session is statement.pdf_password in the session, not committed
ParseStatementBegin ==
  /\ Idle
  /\ \E user \in Users, id \in 1..(Len(db.email_statements) + 1),
        typed \in FormPasswords, save_password \in BOOLEAN :
       LET refused == ConfigRefusal(db.email_statements, id, user) # NoResponse
           pdf_password == Strip(typed)
           saved == IF save_password /\ pdf_password # ""
                    THEN pdf_password ELSE db.email_statements[id].pdf_password
       IN IF refused \/ ~HasCredential(db.google_credentials, user)
          THEN /\ request' = ByIdRequest("parse_statement", user, id)
               /\ response' =
                    IF refused THEN ConfigRefusal(db.email_statements, id, user)
                    ELSE Flashed(302, "No authenticated Google credential")
               /\ db' = db
          ELSE /\ request' = [kind |-> "parse_statement", user |-> user, id |-> id,
                              pdf_password |-> pdf_password,
                              save_password |-> save_password,
                              before |-> db.email_statements[id].pdf_password,
                              old_password |-> saved,
                              session |-> PasswordToUse(pdf_password,
                                            db.email_statements[id].pdf_password),
                              outcome |-> [raised |-> "", value |-> ""],
                              pc |-> "service"]
               /\ response' = NoResponse
               /\ db' = [db EXCEPT !.email_statements[id].pdf_password = saved]
  /\ UNCHANGED <<ledger, others, parser_vars>>

InParse(at) == request.kind = "parse_statement" /\ request.pc = at

\* "transaction_count = service.download_and_parse_pdf(credential,
\* statement)": the document is fetched and parsed, which can raise; the
\* transactions are then stored with the statement, in one commit that
\* writes the statement of the session
DownloadAndParsePdf ==
  /\ InParse("service")
  /\ \E outcome \in ParseOutcomes :
       /\ request' = [request EXCEPT !.outcome = outcome,
                        !.pc = IF outcome.raised = "" THEN "parsed" ELSE "except"]
       /\ IF outcome.raised = ""
          THEN db' = [db EXCEPT !.email_statements[request.id] =
                        StatementOf(request.user, request.session, TRUE)]
          ELSE db' = db
  /\ UNCHANGED <<response, ledger, others, parser_vars>>

\* the end of the try block without the restoring of the old password
ParseStatementEnd_NoRestore ==
  /\ InParse("parsed")
  /\ response' = Flashed(302, "Successfully extracted " \o request.outcome.value
                               \o " transactions")
  /\ request' = [request EXCEPT !.pc = "done"]
  /\ UNCHANGED <<db, ledger, others, parser_vars>>

\* the end of the try block: "if not save_password and pdf_password:
\* statement.pdf_password = old_password; commit", and the flash
ParseStatementEnd ==
  /\ InParse("parsed")
  /\ IF ~request.save_password /\ request.pdf_password # ""
     THEN /\ db' = [db EXCEPT !.email_statements[request.id].pdf_password =
                      request.old_password]
          /\ request' = [request EXCEPT !.pc = "done", !.session = request.old_password]
     ELSE /\ db' = db
          /\ request' = [request EXCEPT !.pc = "done"]
  /\ response' = Flashed(302, "Successfully extracted " \o request.outcome.value
                               \o " transactions")
  /\ UNCHANGED <<ledger, others, parser_vars>>

\* the except blocks: the error is flashed; nothing is committed and the
\* statement of the session goes with the session when the request ends
ParseStatementExcept ==
  /\ InParse("except")
  /\ response' =
       IF request.outcome.raised = "ValueError"
          /\ Contains(Lower(request.outcome.value), "password")
       THEN Flashed(302, request.outcome.value
                         \o ". Please enter the correct PDF password.")
       ELSE Flashed(302, "Parse failed: " \o request.outcome.value)
  /\ request' = [request EXCEPT !.pc = "done"]
  /\ UNCHANGED <<db, ledger, others, parser_vars>>

NextParse ==
  ParseStatementBegin \/ DownloadAndParsePdf \/ ParseStatementEnd
    \/ ParseStatementExcept

(***************************************************************************)
(* the requests by id together                                             *)
(***************************************************************************)
\* the passwords stored with the statement of the first user
StoredPasswords == {None, "old"}

\* two users, each with a credential and a statement
GmailDb(saved) ==
  [EmptyDb EXCEPT
     !.email_statements = <<StatementOf(1, saved, FALSE), StatementOf(2, "old", FALSE)>>,
     !.google_credentials = <<CredentialOf(1, TRUE), CredentialOf(2, FALSE)>>]

\* two users, each with transactions and a configuration
ErpnextDb ==
  [EmptyDb EXCEPT
     !.bank_transactions = SyncStored,
     !.erpnext_configs = <<ConfigOf(1, TRUE), ConfigOf(2, FALSE)>>]

\* the application with the rows of one of its two blueprints, no request
\* made
InitOwner ==
  /\ NoParser
  /\ db \in {GmailDb(saved) : saved \in StoredPasswords} \cup {ErpnextDb}
  /\ request = NoRequest
  /\ response = NoResponse
  /\ ledger = << >>
  /\ others = << >>

NextOwner ==
  \/ Authorize \/ OauthCallback \/ DeleteCredential
  \/ StatementDetail \/ TransactionDetail
  \/ NextParse
  \/ EditConfig \/ TestConfig \/ DeleteConfig \/ ActivateConfig
  \/ NextSync

SpecOwner == InitOwner /\ [][NextOwner]_vars

(***************************************************************************)
(* parse_html_email                                                        *)
(***************************************************************************)
\* re.sub(r'[^\d\.\-]', '', amount_text)
RECURSIVE KeepAmountChars(_)
KeepAmountChars(s) ==
  IF Len(s) = 0 THEN ""
  ELSE (IF IsDigit(Ch(s, 1)) \/ Ch(s, 1) \in {".", "-"} THEN Ch(s, 1) ELSE "")
         \o KeepAmountChars(From(s, 2))

\* "for date_fmt in ['%d/%m/%Y', '%Y-%m-%d', '%d %b %Y']": the date of the
\* first format that date_text has, NoDate when strptime raises for all
\* three (days and months are written with two digits in the texts below)
HtmlDate(date_text) ==
  LET shaped(p) == GenericDateEnd(date_text, 1, p) = Len(date_text) + 1
  IN IF shaped(1) /\ StrptimeDMY(date_text) # NoDate THEN StrptimeDMY(date_text)
     ELSE IF shaped(3) /\ StrptimeYMD(date_text) # NoDate THEN StrptimeYMD(date_text)
     ELSE IF shaped(4) THEN StrptimeDMonY(date_text)
     ELSE NoDate

\* the record appended to transactions
HtmlRecord(trans_date, description, amount) ==
  [date |-> trans_date, description |-> description, amount |-> Abs(amount),
   type |-> TypeOf(amount),
   reference |-> "HTML-" \o Strftime(trans_date)]

\* the body of "for row in rows[1:]" for the cells cols of a row: the list
\* it leaves
HtmlIteration(cols, txs) ==
  IF Len(cols) < 3 THEN txs
  ELSE LET trans_date == HtmlDate(Strip(cols[1]))
           amount == SignedFloat(KeepAmountChars(Strip(cols[3])))
       IN IF trans_date = NoDate \/ ~amount.ok THEN txs
          ELSE Append(txs, HtmlRecord(trans_date, Strip(cols[2]), amount.value))

\* the cells of the rows of the tables of an email (amounts are written with
\* two decimals)
HtmlRowPool == {
  <<"12/01/2024", "Some Shop", "-150.00">>,
  <<"12/01/2024", " Salary ", "R 1,500.00">>,
  <<"2024-01-13", "Cafe", "45.50">>,
  <<"14 Jan 2024", "Fee", "n/a">>,
  <<"yesterday", "Shop", "5.00">>,
  <<"Total", "1,695.50">> }

\* the number of rows of an email under the header rows
MaxHtmlRows == 2

\* the row of the th cells
HtmlHeader == <<"Date", "Description", "Amount">>

\* soup.find_all('table') with table.find_all('tr') of each: the rows in
\* one table or in two
HtmlTables ==
  LET table(rows) == <<HtmlHeader>> \o rows
      split(rows, k) == <<table(SubSeq(rows, 1, k)), table(SubSeq(rows, k + 1, Len(rows)))>>
      all == SeqsUpTo(HtmlRowPool, MaxHtmlRows)
  IN {<<table(rows)>> : rows \in all}
       \cup UNION {{split(rows, k) : k \in 0..Len(rows)} : rows \in all}

\* "for table in tables: for row in rows[1:]": the rows the loops visit
RECURSIVE HtmlRows(_)
HtmlRows(tables) ==
  IF tables = << >> THEN << >> ELSE Tail(Head(tables)) \o HtmlRows(Tail(tables))

\* parse_html_email(html_content, bank_name) is called
InitHtml ==
  /\ \E tables \in HtmlTables : lines = HtmlRows(tables)
  /\ pc = "html"
  /\ DirectCall
  /\ NoLocals
  /\ transactions = << >>
  /\ result = NoResult
  /\ log = << >>

\* one row of a table
HtmlRow ==
  /\ pc = "html" /\ i < Len(lines)
  /\ transactions' = HtmlIteration(lines[i + 1], transactions)
  /\ i' = i + 1
  /\ UNCHANGED <<lines, pc, generic_vars, result, log, call_vars, outside_vars>>

\* "return transactions"
HtmlReturn ==
  /\ pc = "html" /\ i >= Len(lines)
  /\ result' = transactions
  /\ pc' = "done"
  /\ UNCHANGED <<lines, tyme_vars, generic_vars, transactions, log, call_vars, outside_vars>>

NextHtml == HtmlRow \/ HtmlReturn

SpecHtml == InitHtml /\ [][NextHtml]_vars

(***************************************************************************)
(* C1                                                                      *)
(***************************************************************************)
\* C1, as stated: every candidate whose amount fields were found is resolved
\* by the priority money in (credit), money out (debit), fees (debit with
\* the suffix " (Fee)"), and is not emitted when no field is populated.
C1_EveryCandidateResolved == \A k \in FoundAmounts : PriorityHolds(k)

\* C1, amended: the same priority for every candidate whose amount fields
\* were found and whose description has at least three characters and holds
\* neither "Description" nor "Money Out"; a field counts as populated when it
\* is not "-" and converts to a number greater than zero.
C1_ResolutionPriority ==
  \A k \in FoundAmounts : ~IsHeaderLike(DescriptionOf(k)) => PriorityHolds(k)

\* a finished scan that emitted a fee and skipped a candidate with no
\* populated field
C1_Witness ==
  /\ pc = "done"
  /\ \E k \in FoundAmounts :
       /\ ~IsHeaderLike(DescriptionOf(k))
       /\ ~Populated(log[k].fa.m.money_in) /\ ~Populated(log[k].fa.m.money_out)
       /\ Populated(log[k].fa.m.fees)
       /\ Appended(k) /\ EndsWith(RecordOf(k).description, " (Fee)")
  /\ \E k \in FoundAmounts :
       /\ ~IsHeaderLike(DescriptionOf(k))
       /\ ~Populated(log[k].fa.m.money_in) /\ ~Populated(log[k].fa.m.money_out)
       /\ ~Populated(log[k].fa.m.fees)
       /\ NoneAppended(k)

(***************************************************************************)
(* C3                                                                      *)
(***************************************************************************)
\* the amount of the k-th iteration's candidate: the first populated field
\* in the order money in, money out, fees (0 if none)
ParsedAmount(k) ==
  IF Populated(log[k].fa.m.money_in) THEN FieldAmount(log[k].fa.m.money_in)
  ELSE IF Populated(log[k].fa.m.money_out) THEN FieldAmount(log[k].fa.m.money_out)
  ELSE IF Populated(log[k].fa.m.fees) THEN FieldAmount(log[k].fa.m.fees)
  ELSE 0

\* C3: a candidate whose parsed amount exceeds the sanity ceiling of
\* 10,000,000 (here in cents) is dropped: the iteration appends no record.
C3_OversizedDropped ==
  \A k \in FoundAmounts : ParsedAmount(k) > 10000000 * 100 => NoneAppended(k)

(***************************************************************************)
(* C4                                                                      *)
(***************************************************************************)
\* the facts of lines[x], x counted from 0 as in the code
LineAt(x) == Facts[lines[x + 1]]

\* lines[x] has a date prefix that is no calendar date: strptime raises
ParseErrorAt(x) == LineAt(x).dm.ok /\ LineAt(x).trans_date = NoDate

\* the k-th iteration had a well-formed candidate: a valid date, the amount
\* fields found, a description that is kept and a populated field
WellFormed(k) ==
  /\ LineAt(log[k].line).dm.ok /\ LineAt(log[k].line).trans_date # NoDate
  /\ log[k].fa.found
  /\ ~IsHeaderLike(DescriptionOf(k))
  /\ ParsedAmount(k) > 0

\* C4: a parse error on one date-prefixed candidate drops only that
\* candidate: the step leaves the transactions emitted so far as they are
\* and moves to the following line with the scan still running, and every
\* later well-formed candidate is emitted.
C4_ErrorSkipsOneCandidate ==
  /\ [][pc = "tymebank" /\ i < Len(lines) /\ ParseErrorAt(i)
          => transactions' = transactions /\ i' = i + 1 /\ pc' = "tymebank"]_vars
  /\ [](\A k1 \in 1..Len(log) : \A k2 \in (k1 + 1)..Len(log) :
          ParseErrorAt(log[k1].line) /\ WellFormed(k2) => Appended(k2))

\* a finished scan with a transaction emitted before a parse error and one
\* after it
C4_Witness ==
  /\ pc = "done"
  /\ \E k1 \in 1..Len(log) : \E k2 \in (k1 + 1)..Len(log) :
       \E k3 \in (k2 + 1)..Len(log) :
         /\ Appended(k1) /\ ParseErrorAt(log[k2].line) /\ NoneAppended(k2)
         /\ WellFormed(k3) /\ Appended(k3)
         /\ Len(result) = 2

(***************************************************************************)
(* C7                                                                      *)
(***************************************************************************)
\* lines[x] holds a run of monetary fields as a following line
HasFields(x) == LineAt(x).am.ok \/ LineAt(x).im.ok

\* the fields of such a line
FieldsOn(x) == IF LineAt(x).am.ok THEN LineAt(x).am ELSE LineAt(x).im

\* the amounts a run of fields can give
AmountsOn(m) ==
  {FieldAmount(m.fees), FieldAmount(m.money_out), FieldAmount(m.money_in)}

\* no date-prefixed line among lines[a..b]
NoDateLineIn(a, b) == \A y \in a..b : ~LineAt(y).is_date

\* C7: a date line yields a transaction only with an amount from a run of
\* monetary fields on one of the at most five following lines before the
\* next date-prefixed line, or on the date line itself; else nothing is
\* emitted for it.
C7_AmountsWithinWindow ==
  \A k \in 1..Len(log) :
    Appended(k) =>
      \/ \E x \in (log[k].line + 1)..(log[k].line + 5) :
           /\ x < Len(lines)
           /\ HasFields(x)
           /\ NoDateLineIn(log[k].line + 1, x)
           /\ RecordOf(k).amount \in AmountsOn(FieldsOn(x))
      \/ /\ LineAt(log[k].line).same.ok
         /\ RecordOf(k).amount \in AmountsOn(LineAt(log[k].line).same)

\* a finished scan that emitted nothing for a valid date line whose amounts
\* stand on the sixth following line, with no date line in between
C7_Witness ==
  /\ pc = "done"
  /\ \E k \in 1..Len(log) :
       /\ LineAt(log[k].line).dm.ok /\ LineAt(log[k].line).trans_date # NoDate
       /\ log[k].line + 6 < Len(lines)
       /\ HasFields(log[k].line + 6)
       /\ NoDateLineIn(log[k].line + 1, log[k].line + 6)
       /\ \A x \in (log[k].line + 1)..(log[k].line + 5) : ~HasFields(x)
       /\ ~LineAt(log[k].line).same.ok
       /\ NoneAppended(k)

(***************************************************************************)
(* C8                                                                      *)
(***************************************************************************)
\* a line that is purely a long digit run, such as 525309988959
IsDigitRun(s) == Len(s) >= 8 /\ AllDigits(s)

\* the lines between the date line of the k-th iteration and the line its
\* amounts were found on
ContinuationLines(k) == (log[k].line + 1)..(log[k].fa.at - 1)

\* C8: a continuation line that is purely a long digit run is never folded
\* into the description of the emitted transaction.
C8_DigitRunExcluded ==
  \A k \in FoundAmounts :
    Appended(k) =>
      \A x \in ContinuationLines(k) :
        IsDigitRun(LineAt(x).line)
          => ~Contains(RecordOf(k).description, LineAt(x).line)

(***************************************************************************)
(* C9                                                                      *)
(***************************************************************************)
\* the words of the accepted continuation lines lines[x..at-1], in document
\* order: a line is accepted when it is not empty and does not start with "-"
RECURSIVE AcceptedWords(_, _)
AcceptedWords(x, at) ==
  IF x >= at THEN << >>
  ELSE (IF IsDescriptionPart(LineAt(x).line) THEN Split(LineAt(x).line)
        ELSE << >>) \o AcceptedWords(x + 1, at)

\* the words of the text that stands before the fields on the amounts line
PrefixWords(at) ==
  IF LineAt(at).am.ok THEN << >> ELSE Split(LineAt(at).im.g1)

\* the words of the date line's text and of the continuation text of the
\* k-th iteration, in document order
ExpectedWords(k) ==
  Split(LineAt(log[k].line).dm.rest)
    \o AcceptedWords(log[k].line + 1, log[k].fa.at)
    \o PrefixWords(log[k].fa.at)

\* the k-th iteration took its amount from the fees field
FromFees(k) ==
  /\ ~Populated(log[k].fa.m.money_in) /\ ~Populated(log[k].fa.m.money_out)
  /\ Populated(log[k].fa.m.fees)

\* the iterations that emitted with amounts found on a later line
MultiLine == {k \in FoundAmounts : Appended(k) /\ log[k].fa.at > log[k].line}

LaterDate(d1, d2) ==
  \/ d1.year > d2.year
  \/ d1.year = d2.year /\ d1.month > d2.month
  \/ d1.year = d2.year /\ d1.month = d2.month /\ d1.day > d2.day

C2_PositiveAmounts ==
  \A n \in 1..Len(transactions) :
    transactions[n].amount > 0 /\ transactions[n].type \in {"credit", "debit"}

(***************************************************************************)
(* C5                                                                      *)
(***************************************************************************)
\* "for match in matches" of pattern p from the match k on, txs being the
\* records appended so far
RECURSIVE GenericEach(_, _, _, _)
GenericEach(ms, k, p, txs) ==
  IF k > Len(ms) THEN txs
  ELSE GenericEach(ms, k + 1, p, GenericIteration(ms[k], p, txs).transactions)

\* what _parse_generic(text) returns, the patterns from p on being tried
RECURSIVE GenericRun(_, _)
GenericRun(text, p) ==
  IF p > PatternCount THEN << >>
  ELSE IF GenericEach(FindAll(text, p), 1, p, << >>) # << >>
  THEN GenericEach(FindAll(text, p), 1, p, << >>)
  ELSE GenericRun(text, p + 1)

\* C5: when parse_pdf is called for tymebank or capitec and the parser of
\* the bank finds no transaction in the text extracted, parse_pdf returns
\* what the generic parser returns for that text.
C5_FallbackToGeneric ==
  pc = "done" /\ bank_name \in {"tymebank", "capitec"} /\ transactions = << >>
    => result = GenericRun(TextOf(lines), 1)

(***************************************************************************)
(* C6                                                                      *)
(***************************************************************************)
\* the number of matches among ms that pattern p accepts: a valid date and a
\* description of three characters or more
CountAccepted(ms, p) ==
  Cardinality({k \in 1..Len(ms) :
                 GenericIteration(ms[k], p, << >>).outcome = "emitted"})

\* the patterns that accept a match in the text
Yielding ==
  {p \in 1..PatternCount : CountAccepted(FindAll(TextOf(lines), p), p) > 0}

\* what the generic parser has to return when first is the set of yielding
\* patterns: nothing if there is none, else as many records as the first of
\* them accepts, all appended under that pattern
FirstYields(first) ==
  IF first = {} THEN result = << >>
  ELSE \E p \in first :
         /\ \A q \in first : p <= q
         /\ Len(result) = CountAccepted(FindAll(TextOf(lines), p), p)
         /\ \A k \in 1..Len(log) : Appended(k) => log[k].pattern = p

\* C6: the patterns are tried in their order and the search stops at the
\* first that yields an accepted transaction: the records come from one
\* pattern, no later pattern is tried once a record is there, and a pattern
\* whose matches are all rejected does not end the search.
C6_FirstYieldingPattern ==
  /\ \A a \in 1..Len(log) : \A b \in 1..Len(log) :
       /\ Appended(a) /\ Appended(b) => log[a].pattern = log[b].pattern
       /\ a < b => log[a].pattern <= log[b].pattern
  /\ \A a \in 1..Len(log) : Appended(a) => pattern + 1 = log[a].pattern
  /\ pc = "done" => FirstYields(Yielding)

\* a finished call whose records come from a pattern tried after one whose
\* match was rejected, with a later pattern that would have accepted a match
C6_Witness ==
  /\ pc = "done"
  /\ \E a \in 1..Len(log) : \E b \in 1..Len(log) :
       /\ Appended(a) /\ NoneAppended(b) /\ log[b].pattern < log[a].pattern
       /\ \E p \in Yielding : p > log[a].pattern

(***************************************************************************)
(* C12                                                                     *)
(***************************************************************************)
\* the transaction the line of the parts c stands for: money in before money
\* out before the fee, never the balance
ExpectedOf(c) ==
  [date |-> StrptimeDMonY(c.date),
   description |-> IF c.money_in = "-" /\ c.money_out = "-"
                   THEN c.description \o " (Fee)" ELSE c.description,
   amount |-> IF c.money_in # "-" THEN FieldAmount(c.money_in)
              ELSE IF c.money_out # "-" THEN FieldAmount(c.money_out)
              ELSE FieldAmount(c.fees),
   type |-> IF c.money_in # "-" THEN "credit" ELSE "debit"]

\* C12: for a text of one well-formed line '<DD Mon YYYY> <description> <fee>
\* <money out> <money in> <balance>' the parser returns exactly one
\* transaction: its date is the date of the line, its description the text
\* before the four fields (with the fee suffix of C1 when the fee gives the
\* amount), and its amount and type come from the fee, money-out and money-in
\* fields, never from the balance.
C12_SingleLine ==
  \A c \in SingleParts :
    pc = "done" /\ lines = <<SingleLine(c)>>
      => /\ Len(result) = 1
         /\ result[1].date = ExpectedOf(c).date
         /\ result[1].description = ExpectedOf(c).description
         /\ result[1].amount = ExpectedOf(c).amount
         /\ result[1].type = ExpectedOf(c).type

(***************************************************************************)
(* C13                                                                     *)
(***************************************************************************)
\* the number the amount text t shows, in cents, its sign, its R and its
\* commas left out
Magnitude(t) ==
  ParseFloat(RemoveChar(RemoveChar(RemoveChar(t, "-"), "R"), ","))

\* C13: in the generic parser every accepted match is a debit exactly when
\* its amount text begins with a minus sign and a credit otherwise, its
\* amount is the absolute value of the number, and a DD/MM/YYYY date is read
\* day first.
C13_SignGivesDirection ==
  \A k \in 1..Len(log) :
    Appended(k) =>
      /\ RecordOf(k).type =
           (IF StartsWith(log[k].match.amount_str, "-") THEN "debit" ELSE "credit")
      /\ RecordOf(k).amount = Magnitude(log[k].match.amount_str)
      /\ log[k].pattern \in {1, 2} =>
           /\ RecordOf(k).date.day = IntOf(Sub(log[k].match.date_str, 1, 2))
           /\ RecordOf(k).date.month = IntOf(Sub(log[k].match.date_str, 4, 5))
           /\ RecordOf(k).date.year = IntOf(Sub(log[k].match.date_str, 7, 10))

(***************************************************************************)
(* C14                                                                     *)
(***************************************************************************)
\* the errors of a document that could not be decrypted
DecryptionErrors ==
  {"ValueError: PDF is password protected but no password provided",
   "ValueError: Incorrect PDF password",
   "pdfplumber: password error"}

\* C14: when the document is password protected and parse_pdf is given no
\* password or a wrong one, parse_pdf fails: no parser is run, no list is
\* built or returned, and the error raised to the caller is the decryption
\* error (ImportError when no PDF library can be imported at all).
C14_ProtectedPdfFails ==
  pdf.is_encrypted /\ password # UserPassword /\ pc # "parse_pdf"
    => /\ pc = "raised"
       /\ result[1] = "raised"
       /\ lines = << >> /\ transactions = << >> /\ log = << >>
       /\ library # "none" => result[2] \in DecryptionErrors

\* a protected document given a wrong password: parse_pdf has raised
\* "Incorrect PDF password"
C14_Witness ==
  /\ pc = "raised"
  /\ pdf.is_encrypted /\ password = "wrong" /\ library = "PyPDF2"
  /\ result = <<"raised", "ValueError: Incorrect PDF password">>

(***************************************************************************)
(* C30  the scan of _parse_tymebank ends                                   *)
(***************************************************************************)
\* the iterations of the scan so far, in the record: each started at a
\* later line than the one before, and after the line the one before took
\* its amounts from, and took its own amounts from a later line
ScanForward ==
  \A a, b \in 1..Len(log) :
    a < b =>
      /\ log[a].line < log[b].line
      /\ log[a].fa.found =>
           /\ log[a].fa.at < log[b].line
           /\ log[b].fa.found => log[a].fa.at < log[b].fa.at

\* the index of the main loop is after the line of the last iteration and
\* after the line it took its amounts from, and within the text
IndexAhead ==
  /\ i <= Len(lines)
  /\ log # << >> =>
       /\ i > log[Len(log)].line
       /\ log[Len(log)].fa.found => i > log[Len(log)].fa.at

\* C30: the scan ends on every text: each iteration leaves the index of the
\* main loop larger than it found it and within the text, also when the
\* lookahead took the amounts from a later line, when the description is
\* skipped as a header and when the date does not parse; and the line an
\* iteration took its amounts from is before every line a later iteration
\* starts at or takes its amounts from
C30_ScanEnds ==
  /\ [](pc \in {"tymebank", "done"} => ScanForward /\ IndexAhead)
  /\ <>(pc = "done")

\* the scan has ended after an iteration that took its amounts from a later
\* line and one whose date did not parse
C30_Witness ==
  /\ pc = "done"
  /\ \E a \in 1..Len(log) : log[a].fa.found /\ log[a].fa.at > log[a].line
  /\ \E a \in 1..Len(log) : log[a].outcome = "error"

(***************************************************************************)
(* C29  the references of one call                                         *)
(***************************************************************************)
\* C29: the transactions a call of a parser returns have references that
\* differ from each other, also when several of them have the same date
C29_DistinctReferences ==
  pc = "done" =>
    \A k, q \in 1..Len(result) :
      result[k].reference = result[q].reference => k = q

(***************************************************************************)
(* C25  upload_csv: all or nothing                                         *)
(***************************************************************************)
\* the step is the except block of upload_csv
UploadRaises ==
  request.kind = "upload_csv" /\ request.pc # "done"
    /\ response' = Flashed(302, "Error importing CSV")

\* the step is the commit of upload_csv
UploadCommits ==
  request.kind = "upload_csv" /\ request.pc = "commit" /\ request'.pc = "done"
    /\ response'.flash = "Successfully imported"

\* C25: when a statement of upload_csv raises, the session is rolled back
\* and the tables stay as they were, so neither the statement nor a
\* transaction of the file is stored; the tables change in the commit only,
\* which stores the statement asked for together with one row for each
\* transaction that was not skipped as existing
C25_AllOrNothing ==
  [][request.kind = "upload_csv" =>
       /\ UploadRaises => db' = db /\ request'.session = NoSession
       /\ db' # db => UploadCommits
       /\ UploadCommits =>
            /\ db' = Committed(db, request.session)
            /\ Len(request.session.bank_transactions) = request.imported
            /\ request.imported + request.skipped = Len(CsvFile)
            /\ Len(request.session.email_statements) =
                 (IF request.create_statement THEN 1 ELSE 0)
            /\ request'.session = NoSession]_vars

\* upload_csv has raised after it had added the statement and a
\* transaction, and nothing is stored
C25_Witness ==
  /\ request.kind = "upload_csv" /\ request.pc = "done"
  /\ response = Flashed(302, "Error importing CSV")
  /\ request.create_statement /\ request.imported > 0
  /\ db = EmptyDb

(***************************************************************************)
(* C26  bulk_csv_import: a file that raises                                *)
(***************************************************************************)
\* the rows stored for the statement sid
RowsOf(sid) == SelectSeq(db.bank_transactions, LAMBDA r : r.statement_id = sid)

\* C26: after bulk_csv_import a file that raised has left nothing: no
\* statement (one is stored for each file processed, and no other), no
\* transaction, nothing in the totals; a file that did not raise is stored
\* and counted
C26_RaisedFileNothing ==
  request.kind = "bulk_csv_import" /\ request.pc = "done"
    => /\ \A sid \in request.raised \ {NoId} : RowsOf(sid) = << >>
       /\ Len(db.email_statements) = response.files_processed
       /\ Len(db.bank_transactions) - Len(RowsOf(NoId)) = response.imported

(***************************************************************************)
(* C27  two imports at the same time                                       *)
(***************************************************************************)
\* rows k and q hold the same transaction of the same user
SameKey(rows, k, q) ==
  /\ rows[k].user_id = rows[q].user_id
  /\ rows[k].date = rows[q].date /\ rows[k].description = rows[q].description
  /\ rows[k].withdrawal = rows[q].withdrawal /\ rows[k].deposit = rows[q].deposit

\* C27: once two imports of the same user that ran at the same time have
\* both committed, no two stored rows have the same date, description,
\* amount and direction
C27_OneRecordPerKey ==
  request.pc = "done" /\ (\A k \in 1..Len(others) : others[k].request.pc = "done")
    => \A k, q \in 1..Len(db.bank_transactions) :
         SameKey(db.bank_transactions, k, q) => k = q

(***************************************************************************)
(* C28  parse_statement and the stored password                            *)
(***************************************************************************)
\* a request to parse that went as far as the service, at the point at
\* the request
Parsing(at) ==
  request.kind = "parse_statement" /\ "before" \in DOMAIN request /\ request.pc = at

\* the password stored with the statement of the request
StoredPassword == db.email_statements[request.id].pdf_password

TableOf(rows, kind) ==
  IF kind \in {"authorize", "delete_credential"} THEN rows.google_credentials
  ELSE IF kind \in {"statement_detail", "parse_statement"} THEN rows.email_statements
  ELSE IF kind \in {"transaction_detail", "sync_transaction"} THEN rows.bank_transactions
  ELSE rows.erpnext_configs

ByIdKinds ==
  {"authorize", "delete_credential", "statement_detail", "parse_statement",
   "transaction_detail", "sync_transaction",
   "edit_config", "test_config", "delete_config", "activate_config"}

\* the rows of a table that belong to user, in their order
OwnedBy(rows, user) == SelectSeq(rows, LAMBDA row : row.user_id = user)

\* everything stored for user
RecordsOf(rows, user) ==
  <<OwnedBy(rows.google_credentials, user), OwnedBy(rows.email_statements, user),
    OwnedBy(rows.bank_transactions, user), OwnedBy(rows.erpnext_configs, user)>>

\* the request names a row that exists and belongs to someone else
NotTheOwner(rows, req) ==
  /\ req.kind \in ByIdKinds
  /\ req.id \in 1..Len(TableOf(rows, req.kind))
  /\ TableOf(rows, req.kind)[req.id].user_id # req.user

\* the answer says Unauthorized, in a flash or in the JSON message
SaysUnauthorized(answer) ==
  IF "flash" \in DOMAIN answer THEN answer.flash = "Unauthorized"
  ELSE IF "message" \in DOMAIN answer THEN answer.message = "Unauthorized"
  ELSE FALSE

\* C24: no step of a request changes what is stored for another user, the
\* ledger is only called for a transaction of the user who asks, and a
\* request by id for a row of another user is answered Unauthorized with
\* the database and the ledger left as they were
C24_OwnerChecked ==
  [][request'.kind # "none" =>
       /\ \A other \in Users \ {request'.user} :
            RecordsOf(db', other) = RecordsOf(db, other)
       /\ ledger' # ledger =>
            db.bank_transactions[ledger'[Len(ledger')].transaction].user_id
              = request'.user
       /\ NotTheOwner(db, request') =>
            /\ db' = db /\ ledger' = ledger
            /\ request'.pc = "done" => SaysUnauthorized(response')]_vars

\* a request to parse the statement of another user has been answered
C24_Witness ==
  /\ request.kind = "parse_statement" /\ request.pc = "done"
  /\ NotTheOwner(db, request)
  /\ response = Flashed(302, "Unauthorized")

(***************************************************************************)
(* C23  Capitec lines with dates without a year                            *)
(***************************************************************************)
\* the day and the month a line '<DD Mon> ...' begins with
YearlessDate(line, year) == StrptimeDMonY(Sub(line, 1, 6) \o " " \o ToString(year))

\* C23: for a text of N well-formed lines whose dates have the form
\* 'DD Mon', the Capitec parser returns N transactions, one for each line in
\* their order, each dated in the current year
C23_YearlessLines ==
  (/\ pc = "done" /\ bank_name = "capitec"
   /\ \A k \in 1..Len(lines) : lines[k] \in YearlessLines) =>
    /\ Len(result) = Len(lines)
    /\ \A k \in 1..Len(lines) :
         /\ result[k].date = YearlessDate(lines[k], current_year)
         /\ result[k].date.year = current_year

(***************************************************************************)
(* C22  sign of the amount and transaction_type                            *)
(***************************************************************************)
\* C22: for non-negative debit and credit values, a positive amount has the
\* type of the credit side, a negative amount the type of the debit side,
\* and the type is unknown only when the amount is zero
C22_SignAgreesWithType ==
  (/\ request.kind \in {"Transaction", "BankTransaction"}
   /\ response # NoResponse
   /\ request.debit >= 0 /\ request.credit >= 0) =>
    /\ response.amount > 0 => response.transaction_type \in {"credit", "deposit"}
    /\ response.amount < 0 => response.transaction_type \in {"debit", "withdrawal"}
    /\ response.transaction_type = "unknown" => response.amount = 0

(***************************************************************************)
(* C21  one active configuration for each user                             *)
(***************************************************************************)
\* the configurations of user that are active
ActiveOf(user) ==
  {k \in 1..Len(db.erpnext_configs) :
     db.erpnext_configs[k].user_id = user /\ db.erpnext_configs[k].is_active}

\* C21: after any sequence of new_config, edit_config, activate_config and
\* delete_config requests at most one configuration of each user is active
C21_OneActiveConfig ==
  \A user \in Users : Cardinality(ActiveOf(user)) <= 1

(***************************************************************************)
(* C19  the checks before the ledger is called                             *)
(***************************************************************************)
\* the transaction the request names, when there is one
Requested == db.bank_transactions[request.id]

\* the requesting user has a configuration that is active
HasActiveConfig ==
  \E k \in 1..Len(db.erpnext_configs) :
    /\ db.erpnext_configs[k].user_id = request.user
    /\ db.erpnext_configs[k].is_active

\* C19: sync_transaction calls create_journal_entry only for a transaction of
\* the requesting user that has a category when that user has an active
\* configuration; otherwise it answers 403 (not the owner), else 400 (no
\* category), else 400 (no active configuration), calls nothing and changes
\* nothing
C19_ChecksBeforeLedger ==
  [][ /\ ledger' # ledger =>
           /\ InSync("call")
           /\ Requested.user_id = request.user
           /\ Requested.category_id # NoId
           /\ HasActiveConfig
      /\ (InSync("start") /\ request.id \in 1..Len(db.bank_transactions)) =>
           IF Requested.user_id # request.user
           THEN /\ response' = JsonResponse(403, FALSE, "Unauthorized")
                /\ request'.pc = "done" /\ db' = db /\ ledger' = ledger
           ELSE IF Requested.category_id = NoId
           THEN /\ response' = JsonResponse(400, FALSE, "Transaction must be categorized first")
                /\ request'.pc = "done" /\ db' = db /\ ledger' = ledger
           ELSE IF ~HasActiveConfig
           THEN /\ response' = JsonResponse(400, FALSE, "No active ERPNext configuration")
                /\ request'.pc = "done" /\ db' = db /\ ledger' = ledger
           ELSE request'.pc = "call" ]_vars

\* after a request that reached the ledger, a request for another user's
\* transaction without a category is answered 403 and the ledger has still
\* been called once
C19_Witness ==
  /\ InSync("done") /\ request.n = 2
  /\ request.id \in 1..Len(db.bank_transactions)
  /\ Requested.user_id # request.user /\ Requested.category_id = NoId
  /\ response.status = 403
  /\ Len(ledger) = 1 /\ ledger[1].request = 1

(***************************************************************************)
(* C20  one call of the ledger for each sync request                       *)
(***************************************************************************)
\* the calls of the ledger made for request n
CallsOf(n) == {k \in 1..Len(ledger) : ledger[k].request = n}

\* C20: a sync request that reaches the ledger calls it exactly once; when
\* the call fails the request is answered 500 with the text of the error and
\* the ledger is not called again before a new request is made
C20_OneCallNoRetry ==
  /\ \A n \in 1..MaxRequests : Cardinality(CallsOf(n)) <= 1
  /\ \A k \in 1..Len(ledger) : ledger[k].request <= RequestNo
  /\ InSync("return") \/ InSync("except") => Cardinality(CallsOf(request.n)) = 1
  /\ InSync("done") =>
       /\ response.status \in {200, 500} <=> Cardinality(CallsOf(request.n)) = 1
       /\ request.outcome.raised =>
            response = JsonResponse(500, FALSE, request.outcome.value)

\* a request whose call failed was answered 500 with the error, and the
\* same transaction was then requested again: two calls, one for each
C20_Witness ==
  /\ InSync("done") /\ request.n = 2
  /\ Len(ledger) = 2
  /\ ledger[1].transaction = ledger[2].transaction
  /\ ledger[1].request = 1 /\ ledger[2].request = 2
  /\ response = JsonResponse(500, FALSE, "Connection refused")

(***************************************************************************)
(* C16  keyword categorization                                             *)
(***************************************************************************)
\* the categories of cs, by index, of which a keyword occurs in d when
\* both are put in lower case
KeywordHits(cs, d) ==
  {k \in 1..Len(cs) :
     \E n \in 1..Len(KeywordsList(cs[k].keywords)) :
       Contains(Lower(d), Lower(KeywordsList(cs[k].keywords)[n]))}

\* the run of auto_categorize_all has returned
CategorizeDone == request.kind = "auto_categorize_all" /\ request.pc = "done"

\* the transactions that had no category when the run was called
WithoutCategory == {j \in 1..Len(request.at_call) : request.at_call[j].category_id = NoId}

\* C16: a category matches a description exactly when one of its keywords
\* occurs in it, letter case put aside; a transaction whose description
\* several categories match is assigned one category, the first matching one
\* in iteration order
C16_FirstKeywordMatch ==
  CategorizeDone =>
    \A j \in WithoutCategory :
      LET hits == KeywordHits(db.categories, request.at_call[j].description)
      IN /\ \A k \in 1..Len(db.categories) :
              MatchesDescription(db.categories[k], request.at_call[j].description)
                <=> k \in hits
         /\ hits # {} =>
              \E k \in hits :
                /\ \A q \in hits : k <= q
                /\ db.bank_transactions[j].category_id = db.categories[k].id

\* a description in capitals is matched, and a description two categories
\* match is given the first one of the iteration, Food before Transport
C16_Witness ==
  /\ CategorizeDone
  /\ db.categories[1].name = "Food"
  /\ \E j \in WithoutCategory :
       /\ request.at_call[j].description = "Uber Eats lunch delivery"
       /\ db.bank_transactions[j].category_id = db.categories[1].id
  /\ \E j \in WithoutCategory :
       /\ request.at_call[j].description = "UBER TRIP TO AIRPORT"
       /\ db.bank_transactions[j].category_id = db.categories[2].id

(***************************************************************************)
(* C17  categories already assigned                                        *)
(***************************************************************************)
\* C17: auto_categorize_all leaves a transaction that has a category when it
\* is called as it is, whatever its description matches, and does not count
\* it as categorized
C17_ExistingCategoryKept ==
  /\ request.kind = "auto_categorize_all" =>
       \A j \in 1..Len(request.at_call) :
         request.at_call[j].category_id # NoId
           => db.bank_transactions[j] = request.at_call[j]
  /\ CategorizeDone =>
       response.categorized =
         Cardinality({j \in WithoutCategory :
                        db.bank_transactions[j].category_id # NoId})

\* a transaction filed under Food whose description matches Transport keeps
\* Food, while another transaction is categorized by the run
C17_Witness ==
  /\ CategorizeDone
  /\ response.categorized = 1
  /\ \E j \in 1..Len(request.at_call) :
       /\ request.at_call[j].description = "Uber trip to office"
       /\ request.at_call[j].category_id = 2
       /\ db.bank_transactions[j].category_id = 2

SameTransaction(r, user, td) ==
  /\ r.user_id = user
  /\ r.date = td.transaction_date
  /\ r.description = td.description
  /\ r.withdrawal = td.debits /\ r.deposit = td.credits

\* C15: during a CSV import a transaction is skipped as a duplicate exactly
\* when a stored transaction of the same user has its date, its description,
\* its amount and its direction; otherwise it is imported.
C15_DuplicateKey ==
  [][InCsv /\ request.pc = "rows" /\ request.row < Len(CsvFile)
       => LET duplicate == \E k \in 1..Len(VisibleRows) :
                SameTransaction(VisibleRows[k], request.user, CsvNext)
          IN request'.row = request.row + 1 =>
               /\ duplicate => request'.skipped = request.skipped + 1
                                 /\ request'.session = request.session
               /\ ~duplicate => request'.imported = request.imported + 1
                                  /\ Len(request'.session.bank_transactions) =
                                       Len(request.session.bank_transactions) + 1]_vars

(***************************************************************************)
(* C11                                                                     *)
(***************************************************************************)
\* C11: parsing is deterministic and stateless: a second call of the parser
\* on the same text returns the list the first call returned, whatever
\* happened before and whenever the calls are made.
C11_SameTextSameList ==
  pc = "done" /\ previous # << >> => result = previous[1]
=============================================================================
